---- MODULE Spec2Model ----
(***************************************************************************)
(* A model of the agent tool host (agents/base-agent.js), the argument     *)
(* validator (agents/utils.js), the security agent's scanners              *)
(* (agents/security-agent/index.js) and the scoring, similarity,           *)
(* documentation, test generation and review functions of the other        *)
(* agents.                                                                 *)
(*                                                                         *)
(* The specifications share the variables below; each leaves the           *)
(* variables of the others at their initial values:                        *)
(*   Spec      the tool host: registerTool, initialize, list-tools and     *)
(*             call-tool requests (suspended at their await), SIGINT;      *)
(*   SpecScan  the security agent's tools called through the same dispatch *)
(*             on a bounded set of source texts;                           *)
(*   SpecRisk  calculateRiskScore on bounded lists of findings;            *)
(* and one specification for each of the functions modelled further down.  *)
(***************************************************************************)
EXTENDS Integers, Sequences, FiniteSets, TLC

VARIABLES
    tools,        \* this.tools: the registered tools, in registration order
    listSet,      \* whether a ListToolsRequestSchema handler has been set
    initialized,  \* whether initialize() has set the call handler and connected
    reqs,         \* the call-tool requests received so far, each with its position
                  \* (and, as history, the size of the registry on arrival)
    calls,        \* history: the handler invocations: the request and the
                  \* index of the tool whose handler was called
    lastList,     \* the response to the latest list-tools request
    sigints,      \* the SIGINT listeners started, each with its position
    closed,       \* history: how many server.close() calls have completed
    exited,       \* whether process.exit has been called
    exitCode,     \* the code passed to process.exit
    code,         \* SpecScan: the source text under scan, a sequence of characters
    framework,    \* SpecScan: the framework argument of the requests
    scanResp,     \* SpecScan: the responses of the tools called on code
    xss,          \* SpecXSS: what the XSS step of a scan pushes for code
    vulns,        \* SpecRisk: the list of findings scored
    riskScore,    \* SpecRisk: the score computed for vulns (-1: not yet)
    riskPlus,     \* SpecRisk: the score computed for vulns and one more
                  \* critical finding (-1: not yet)
    quality,      \* a clean code agent call (SpecQuality: calculateQualityScore)
    sim,          \* SpecSimilarity: a calculateSimilarity call
    orch,         \* SpecOrchestrator: an analyzeCode call
    doc,          \* SpecDocs: an extractRubyDocs call
    gen,          \* SpecGenerate: a generate-test request
    pr            \* SpecReviewPR: a review-pr request

vars == <<tools, listSet, initialized, reqs, calls, lastList, sigints, closed,
          exited, exitCode, code, framework, scanResp, xss, vulns, riskScore,
          riskPlus, quality, sim, orch, doc, gen, pr>>

hostVars == <<tools, listSet, initialized, reqs, calls, lastList, sigints,
              closed, exited, exitCode>>
scanVars == <<code, framework, scanResp, xss>>
riskVars == <<vulns, riskScore, riskPlus>>
agentVars == <<quality, sim, orch, doc, gen, pr>>

\* The value of a variable of a specification that is not running.
Idle == [pc |-> "idle"]

AgentsIdle ==
    /\ quality = Idle
    /\ sim = Idle
    /\ orch = Idle
    /\ doc = Idle
    /\ gen = Idle
    /\ pr = Idle

(***************************************************************************)
(* Bounds of the model.                                                    *)
(***************************************************************************)
MaxTools == 2
MaxReqs == 2
MaxSigints == 1
MaxFragments == 2
MaxMixed == 3
MaxPad == 11
MaxComplexity == 16
MaxHighSmells == 5
MaxSmells == 2
MaxStrLen == 4
MaxIssues == 2
MaxFound == 2
MaxFiles == 2

(***************************************************************************)
(* JavaScript values, as far as the host looks at them.                    *)
(***************************************************************************)
Absent == [present |-> FALSE, type |-> "undefined", v |-> ""]
Str(s) == [present |-> TRUE, type |-> "string", v |-> s]
Num(s) == [present |-> TRUE, type |-> "number", v |-> s]

\* The arguments objects the requests carry: {}, {code: "x"}, {code: 123}.
NoArgs == [code |-> Absent]
CodeString == [code |-> Str("x")]
CodeNumber == [code |-> Num("123")]

\* field in args
HasField(args, field) == args[field].present

\* typeof args[field]
TypeOf(args, field) == args[field].type

(***************************************************************************)
(* Tools.  A tool is {name, description, inputSchema, handler}; the        *)
(* handler is a closure, modelled by the behaviour of its body.            *)
(***************************************************************************)
SchemaCode == [required |-> <<"code">>,
               properties |-> {[key |-> "code", type |-> "string"]}]
SchemaOpen == [required |-> << >>, properties |-> {}]

ToolCatalog ==
    { [name |-> "scan", description |-> "first", inputSchema |-> SchemaCode,
       handler |-> "usesCode"],
      [name |-> "scan", description |-> "second", inputSchema |-> SchemaOpen,
       handler |-> "returnsString"],
      [name |-> "boom", description |-> "third", inputSchema |-> SchemaOpen,
       handler |-> "throws"] }

\* The call-tool requests the host receives; "nonexistent" is never registered.
RequestChoices ==
    { [name |-> "scan", args |-> NoArgs],
      [name |-> "scan", args |-> CodeString],
      [name |-> "scan", args |-> CodeNumber],
      [name |-> "boom", args |-> NoArgs],
      [name |-> "nonexistent", args |-> CodeString] }

Return(type, v) == [kind |-> "return", type |-> type, v |-> v]
Throw(type, message) == [kind |-> "throw", type |-> type, v |-> message]

HandlerOutcomeStateful(behaviour, args, ncalls) ==
    CASE behaviour = "usesCode" ->
           IF TypeOf(args, "code") = "string"
           THEN Return("object", IF ncalls = 0 THEN args.code.v ELSE "cached")
           ELSE Throw("TypeError", "code.includes")
      [] behaviour = "returnsString" -> Return("string", "done")
      [] OTHER -> Throw("Error", "boom")

\* await tool.handler(args): what the handler's promise settles to.  The
\* agents' handlers are async (args) => this.method(args); the methods read
\* args.code (code.includes(...)), so a missing or non-string code is a
\* TypeError, and they keep nothing between calls (ncalls is not read).
HandlerOutcome(behaviour, args, ncalls) ==
    CASE behaviour = "usesCode" ->
           IF TypeOf(args, "code") = "string"
           THEN Return("object", args.code.v)
           ELSE Throw("TypeError", "code.includes")
      [] behaviour = "returnsString" -> Return("string", "done")
      [] OTHER -> Throw("Error", "boom")

\* validateArguments(args, schema): the errors, in the order they are pushed.
ValidateArguments(args, schema) ==
    LET missing == SelectSeq(schema.required, LAMBDA f : ~HasField(args, f))
        badType == {p \in schema.properties :
                      /\ HasField(args, p.key)
                      /\ p.type # ""
                      /\ TypeOf(args, p.key) # p.type}
    IN  [valid |-> Len(missing) = 0 /\ badType = {},
         missing |-> missing,
         badType |-> {p.key : p \in badType}]

(***************************************************************************)
(* registerTool and the list-tools handler it sets.                        *)
(***************************************************************************)
DescriptorLeaky(t) ==
    [name |-> t.name, description |-> t.description,
     inputSchema |-> t.inputSchema, handler |-> t.handler]

\* t => ({name: t.name, description: t.description, inputSchema: t.inputSchema})
Descriptor(t) ==
    [name |-> t.name, description |-> t.description,
     inputSchema |-> t.inputSchema]

ListToolsResponse(ts) == [i \in 1..Len(ts) |-> Descriptor(ts[i])]

RegisterTool(t) ==
    /\ ~exited
    /\ Len(tools) < MaxTools
    /\ tools' = Append(tools, t)
    /\ listSet' = TRUE
    /\ UNCHANGED <<initialized, reqs, calls, lastList, sigints, closed, exited,
                   exitCode, scanVars, riskVars,
                   agentVars>>

\* A list-tools request.  Without a handler the server has nothing to call.
ListTools ==
    /\ ~exited
    /\ initialized
    /\ sigints = << >>
    /\ lastList' = IF listSet
                   THEN [kind |-> "tools", at |-> Len(tools),
                         tools |-> ListToolsResponse(tools)]
                   ELSE [kind |-> "noHandler", at |-> Len(tools), tools |-> << >>]
    /\ UNCHANGED <<tools, listSet, initialized, reqs, calls, sigints, closed,
                   exited, exitCode, scanVars, riskVars,
                   agentVars>>

(***************************************************************************)
(* initialize: the call-tool handler.                                      *)
(***************************************************************************)
Initialize ==
    /\ ~exited
    /\ ~initialized
    /\ initialized' = TRUE
    /\ UNCHANGED <<tools, listSet, reqs, calls, lastList, sigints, closed,
                   exited, exitCode, scanVars, riskVars,
                   agentVars>>

FindToolOrFirst(ts, name) ==
    LET hits == {i \in 1..Len(ts) : ts[i].name = name}
    IN  IF hits = {} THEN (IF ts = << >> THEN 0 ELSE 1)
        ELSE CHOOSE i \in hits : \A j \in hits : i <= j

FindToolLast(ts, name) ==
    LET hits == {i \in 1..Len(ts) : ts[i].name = name}
    IN  IF hits = {} THEN 0 ELSE CHOOSE i \in hits : \A j \in hits : j <= i

\* this.tools.find(t => t.name === name): the index of the first tool of that
\* name, 0 for undefined.
FindTool(ts, name) ==
    LET hits == {i \in 1..Len(ts) : ts[i].name = name}
    IN  IF hits = {} THEN 0 ELSE CHOOSE i \in hits : \A j \in hits : i <= j

NoResponse == [kind |-> "none", isError |-> FALSE, text |-> << >>]

\* throw new Error(`Tool ${name} not found`): the request handler rejects.
ToolNotFound(name) ==
    [kind |-> "rejected", isError |-> FALSE,
     text |-> <<"Tool ", name, " not found">>]

\* typeof result === 'string' ? result : JSON.stringify(result, null, 2)
ResultText(outcome) ==
    IF outcome.type = "string" THEN <<outcome.v>> ELSE <<"json", outcome.v>>

WrapOutcomePropagating(outcome) ==
    IF outcome.kind = "return"
    THEN [kind |-> "result", isError |-> FALSE, text |-> ResultText(outcome)]
    ELSE [kind |-> "rejected", isError |-> FALSE, text |-> <<outcome.v>>]

\* The try/catch around await tool.handler(args).
WrapOutcome(outcome) ==
    IF outcome.kind = "return"
    THEN [kind |-> "result", isError |-> FALSE, text |-> ResultText(outcome)]
    ELSE [kind |-> "result", isError |-> TRUE, text |-> <<"Error: ", outcome.v>>]

\* The call-tool handler up to its await: look the tool up, throw if there is
\* none, else call its handler, whose promise the request then awaits.
CallToolStart(name, args) ==
    /\ ~exited
    /\ initialized
    /\ sigints = << >>
    /\ Len(reqs) < MaxReqs
    /\ LET idx == FindTool(tools, name)
           id == Len(reqs) + 1
       IN  IF idx = 0
           THEN /\ reqs' = Append(reqs, [name |-> name, args |-> args,
                                         pc |-> "done", tool |-> 0,
                                         size |-> Len(tools),
                                         settled |-> Throw("Error", "not found"),
                                         response |-> ToolNotFound(name)])
                /\ calls' = calls
           ELSE /\ reqs' = Append(reqs, [name |-> name, args |-> args,
                                         pc |-> "await", tool |-> idx,
                                         size |-> Len(tools),
                                         settled |-> HandlerOutcome(
                                             tools[idx].handler, args, Len(calls)),
                                         response |-> NoResponse])
                /\ calls' = Append(calls, [req |-> id, tool |-> idx])
    /\ UNCHANGED <<tools, listSet, initialized, lastList, sigints, closed,
                   exited, exitCode, scanVars, riskVars,
                   agentVars>>

\* The call-tool handler from its await on: the handler's promise has settled.
CallToolResume(id) ==
    /\ ~exited
    /\ id \in 1..Len(reqs)
    /\ reqs[id].pc = "await"
    /\ reqs' = [reqs EXCEPT ![id].pc = "done",
                            ![id].response = WrapOutcome(reqs[id].settled)]
    /\ UNCHANGED <<tools, listSet, initialized, calls, lastList, sigints,
                   closed, exited, exitCode, scanVars, riskVars,
                   agentVars>>

(***************************************************************************)
(* setupErrorHandling: the SIGINT listener.                                *)
(***************************************************************************)
ExitReadyNoAwait(pc) == pc \in {"awaitClose", "closeDone"}

\* await this.server.close(): the listener goes on once close has completed.
ExitReady(pc) == pc = "closeDone"

\* SIGINT arrives: the listener calls this.server.close() and awaits it.
Sigint ==
    /\ ~exited
    /\ Len(sigints) < MaxSigints
    /\ sigints' = Append(sigints, "awaitClose")
    /\ UNCHANGED <<tools, listSet, initialized, reqs, calls, lastList, closed,
                   exited, exitCode, scanVars, riskVars,
                   agentVars>>

\* The close a listener awaits completes.
CloseCompletes(i) ==
    /\ ~exited
    /\ i \in 1..Len(sigints)
    /\ sigints[i] = "awaitClose"
    /\ sigints' = [sigints EXCEPT ![i] = "closeDone"]
    /\ closed' = closed + 1
    /\ UNCHANGED <<tools, listSet, initialized, reqs, calls, lastList, exited,
                   exitCode, scanVars, riskVars,
                   agentVars>>

\* process.exit(0)
ProcessExit(i) ==
    /\ ~exited
    /\ i \in 1..Len(sigints)
    /\ ExitReady(sigints[i])
    /\ exited' = TRUE
    /\ exitCode' = 0
    /\ UNCHANGED <<tools, listSet, initialized, reqs, calls, lastList, sigints,
                   closed, scanVars, riskVars,
                   agentVars>>

(***************************************************************************)
(* The tool host.                                                          *)
(***************************************************************************)
Init ==
    /\ tools = << >>
    /\ listSet = FALSE
    /\ initialized = FALSE
    /\ reqs = << >>
    /\ calls = << >>
    /\ lastList = [kind |-> "none", at |-> 0, tools |-> << >>]
    /\ sigints = << >>
    /\ closed = 0
    /\ exited = FALSE
    /\ exitCode = -1
    /\ code = << >>
    /\ framework = "rails"
    /\ scanResp = << >>
    /\ xss = Idle
    /\ vulns = << >>
    /\ riskScore = -1
    /\ riskPlus = -1
    /\ AgentsIdle

Next ==
    \/ \E t \in ToolCatalog : RegisterTool(t)
    \/ Initialize
    \/ ListTools
    \/ \E r \in RequestChoices : CallToolStart(r.name, r.args)
    \/ \E id \in 1..MaxReqs : CallToolResume(id)

Spec == Init /\ [][Next]_vars

(***************************************************************************)
(* Shutdown: an agent as its module leaves it (the constructor has         *)
(* registered the tools, start() has run initialize), serving requests     *)
(* when SIGINT arrives.                                                    *)
(***************************************************************************)
StartedTools ==
    << [name |-> "scan", description |-> "first", inputSchema |-> SchemaCode,
        handler |-> "usesCode"],
       [name |-> "boom", description |-> "third", inputSchema |-> SchemaOpen,
        handler |-> "throws"] >>

InitStarted ==
    /\ tools = StartedTools
    /\ listSet = TRUE
    /\ initialized = TRUE
    /\ reqs = << >>
    /\ calls = << >>
    /\ lastList = [kind |-> "none", at |-> 0, tools |-> << >>]
    /\ sigints = << >>
    /\ closed = 0
    /\ exited = FALSE
    /\ exitCode = -1
    /\ code = << >>
    /\ framework = "rails"
    /\ scanResp = << >>
    /\ xss = Idle
    /\ vulns = << >>
    /\ riskScore = -1
    /\ riskPlus = -1
    /\ AgentsIdle

NextShutdown ==
    \/ \E r \in RequestChoices : CallToolStart(r.name, r.args)
    \/ \E id \in 1..MaxReqs : CallToolResume(id)
    \/ Sigint
    \/ \E i \in 1..MaxSigints : CloseCompletes(i)
    \/ \E i \in 1..MaxSigints : ProcessExit(i)

SpecShutdown == InitStarted /\ [][NextShutdown]_vars

(***************************************************************************)
(* Properties of the tool host.                                            *)
(***************************************************************************)
Requests == 1..Len(reqs)
Done(id) == reqs[id].pc = "done"
CalledFor(id) == {k \in 1..Len(calls) : calls[k].req = id}
Registered(name) == \E i \in 1..Len(tools) : tools[i].name = name

\* C1: a call-tool request whose name is the name of no registered tool fails
\* with 'Tool <name> not found', and no handler is invoked for it.
C1_UnknownToolNotFound ==
    \A id \in Requests :
        ~Registered(reqs[id].name) =>
            /\ Done(id)
            /\ reqs[id].response.kind = "rejected"
            /\ reqs[id].response.text = <<"Tool ", reqs[id].name, " not found">>
            /\ CalledFor(id) = {}

C1_Witness ==
    \E id \in Requests :
        /\ tools # << >>
        /\ ~Registered(reqs[id].name)
        /\ reqs[id].response.kind = "rejected"

\* C2: a call-tool request whose arguments fail the matched tool's inputSchema
\* (a required field missing, or a field of another type than declared) gets a
\* validation error, and the tool's handler is never called.
C2_InvalidArgumentsRejected ==
    \A id \in Requests :
        LET idx == FindTool(tools, reqs[id].name)
        IN  (idx > 0 /\ ~ValidateArguments(reqs[id].args,
                                           tools[idx].inputSchema).valid) =>
                /\ CalledFor(id) = {}
                /\ Done(id) => reqs[id].response.kind = "validationError"

\* C3: when the matched handler throws or rejects, the request completes with
\* isError = true and the text 'Error: ' + message; nothing propagates, and
\* the agent goes on serving: the call handler stays installed and every later
\* request is answered as it would be alone.
C3_HandlerErrorWrapped ==
    \A id \in Requests :
        (reqs[id].tool > 0 /\ reqs[id].settled.kind = "throw") =>
            /\ Done(id) =>
                 /\ reqs[id].response.kind = "result"
                 /\ reqs[id].response.isError
                 /\ reqs[id].response.text = <<"Error: ", reqs[id].settled.v>>
            /\ initialized
            /\ \A later \in Requests :
                 (later > id /\ Done(later) /\ reqs[later].tool > 0
                    /\ reqs[later].settled.kind = "return") =>
                     /\ reqs[later].response.kind = "result"
                     /\ ~reqs[later].response.isError

C3_Witness ==
    \E id, later \in Requests :
        /\ id < later
        /\ reqs[id].tool > 0 /\ reqs[id].settled.kind = "throw" /\ Done(id)
        /\ reqs[id].response.isError
        /\ reqs[later].tool > 0 /\ Done(later)
        /\ reqs[later].response.kind = "result"
        /\ ~reqs[later].response.isError

\* C4: the list-tools response holds one {name, description, inputSchema}
\* entry per registerTool call, in registration order, tools of equal name as
\* separate entries, and no handler.
C4_ListToolsExact ==
    /\ (lastList.kind # "none" /\ lastList.at > 0) => lastList.kind = "tools"
    /\ lastList.kind = "tools" =>
         /\ Len(lastList.tools) = lastList.at
         /\ \A i \in 1..lastList.at :
              /\ DOMAIN lastList.tools[i] = {"name", "description", "inputSchema"}
              /\ lastList.tools[i].name = tools[i].name
              /\ lastList.tools[i].description = tools[i].description
              /\ lastList.tools[i].inputSchema = tools[i].inputSchema

C4_Witness ==
    /\ lastList.kind = "tools"
    /\ \E i, j \in 1..lastList.at :
         i < j /\ lastList.tools[i].name = lastList.tools[j].name

\* C5: with several tools registered under one name, a call-tool request for
\* that name invokes the handler of the earliest registration.
C5_EarliestRegistrationWins ==
    \A k \in 1..Len(calls) :
        LET c == calls[k]
        IN  /\ tools[c.tool].name = reqs[c.req].name
            /\ \A j \in 1..reqs[c.req].size :
                 tools[j].name = reqs[c.req].name => c.tool <= j

C5_Witness ==
    \E k \in 1..Len(calls) :
        \E j \in 1..reqs[calls[k].req].size :
            /\ j # calls[k].tool
            /\ tools[j].name = tools[calls[k].tool].name
            /\ Done(calls[k].req)

\* The response of a request served alone, by a fresh agent with this registry.
AloneResponse(ts, name, args) ==
    LET idx == FindTool(ts, name)
    IN  IF idx = 0
        THEN ToolNotFound(name)
        ELSE WrapOutcome(HandlerOutcome(ts[idx].handler, args, 0))

C7_CloseBeforeExit ==
    exited => (closed >= 1 /\ exitCode = 0)

C7_Witness ==
    exited /\ sigints # << >>

(***************************************************************************)
(* Source text.  A text is a sequence of characters (UTF-16 code units);   *)
(* the string operations of the scanners are modelled on it.               *)
(***************************************************************************)
UpperCase ==
    <<"A", "B", "C", "D", "E", "F", "G", "H", "I", "J", "K", "L", "M", "N",
      "O", "P", "Q", "R", "S", "T", "U", "V", "W", "X", "Y", "Z">>
LowerCase ==
    <<"a", "b", "c", "d", "e", "f", "g", "h", "i", "j", "k", "l", "m", "n",
      "o", "p", "q", "r", "s", "t", "u", "v", "w", "x", "y", "z">>

\* The case folding of the i flag.
Lower(c) ==
    IF \E k \in 1..26 : UpperCase[k] = c
    THEN LowerCase[CHOOSE k \in 1..26 : UpperCase[k] = c]
    ELSE c

\* \s
IsSpace(c) == c \in {" ", "\n", "\t"}

\* ['"]
IsQuote(c) == c \in {"'", "\""}

\* needle occurs in text at index i (1-based)
StartsWithAt(text, i, needle) ==
    /\ i >= 1
    /\ i + Len(needle) - 1 <= Len(text)
    /\ \A k \in 1..Len(needle) : text[i + k - 1] = needle[k]

\* the same under the i flag
StartsWithAtI(text, i, needle) ==
    /\ i >= 1
    /\ i + Len(needle) - 1 <= Len(text)
    /\ \A k \in 1..Len(needle) : Lower(text[i + k - 1]) = Lower(needle[k])

\* text.includes(needle)
Includes(text, needle) ==
    \E i \in 1..(Len(text) + 1) : StartsWithAt(text, i, needle)

\* The least element of a set of indexes, 0 for the empty set.
MinOrZero(S) == IF S = {} THEN 0 ELSE CHOOSE x \in S : \A y \in S : x <= y

\* \s* matching text[from..to]
AllSpace(text, from, to) == \A k \in from..to : IsSpace(text[k])

\* [^'"]* matching text[from..to]
NoQuote(text, from, to) == \A k \in from..to : ~IsQuote(text[k])

\* where(
sWhereCall ==
    <<"w", "h", "e", "r", "e", "(">>

\* execute(
sExecuteCall ==
    <<"e", "x", "e", "c", "u", "t", "e", "(">>

\* ${
sDollarBrace ==
    <<"$", "{">>

\* sql
sSql ==
    <<"s", "q", "l">>

\* .html_safe
sHtmlSafe ==
    <<".", "h", "t", "m", "l", "_", "s", "a", "f", "e">>

\* raw(
sRawCall ==
    <<"r", "a", "w", "(">>

\* innerHTML
sInnerHTML ==
    <<"i", "n", "n", "e", "r", "H", "T", "M", "L">>

\* sanitize
sSanitize ==
    <<"s", "a", "n", "i", "t", "i", "z", "e">>

\* password
sPassword ==
    <<"p", "a", "s", "s", "w", "o", "r", "d">>

\* api
sApiKey ==
    <<"a", "p", "i">>

\* key
sKey ==
    <<"k", "e", "y">>

\* secret
sSecret ==
    <<"s", "e", "c", "r", "e", "t">>

\* token
sToken ==
    <<"t", "o", "k", "e", "n">>

\* class
sClass ==
    <<"c", "l", "a", "s", "s">>

\* Controller
sController ==
    <<"C", "o", "n", "t", "r", "o", "l", "l", "e", "r">>

\* protect_from_forgery
sProtectFromForgery ==
    <<"p", "r", "o", "t", "e", "c", "t", "_", "f", "r", "o", "m", "_", "f",
      "o", "r", "g", "e", "r", "y">>

\* before_action
sBeforeAction ==
    <<"b", "e", "f", "o", "r", "e", "_", "a", "c", "t", "i", "o", "n">>

\* authenticate
sAuthenticate ==
    <<"a", "u", "t", "h", "e", "n", "t", "i", "c", "a", "t", "e">>

\* fetch
sFetch ==
    <<"f", "e", "t", "c", "h">>

\* axios
sAxios ==
    <<"a", "x", "i", "o", "s">>

\* Authorization
sAuthorization ==
    <<"A", "u", "t", "h", "o", "r", "i", "z", "a", "t", "i", "o", "n">>

\* Bearer
sBearer ==
    <<"B", "e", "a", "r", "e", "r">>

\* params[:
sParamsIndex ==
    <<"p", "a", "r", "a", "m", "s", "[", ":">>

\* update(
sUpdateCall ==
    <<"u", "p", "d", "a", "t", "e", "(">>

\* permit
sPermit ==
    <<"p", "e", "r", "m", "i", "t">>

\* password = "abc123"
tPasswordExample ==
    <<"p", "a", "s", "s", "w", "o", "r", "d", " ", "=", " ", "\"", "a", "b",
      "c", "1", "2", "3", "\"">>

\* class W < B\nend
tPlainClass ==
    <<"c", "l", "a", "s", "s", " ", "W", " ", "<", " ", "B", "\n", "e", "n",
      "d">>

\* where("id = " + id)
tWhereConcat ==
    <<"w", "h", "e", "r", "e", "(", "\"", "i", "d", " ", "=", " ", "\"", " ",
      "+", " ", "i", "d", ")">>

\* API_KEY: 'k'
tApiKeyUpper ==
    <<"A", "P", "I", "_", "K", "E", "Y", ":", " ", "'", "k", "'">>

\* token = "
tTokenOpen ==
    <<"t", "o", "k", "e", "n", " ", "=", " ", "\"">>


\* class UsersController\n
tControllerClass ==
    <<"c", "l", "a", "s", "s", " ", "U", "s", "e", "r", "s", "C", "o", "n",
      "t", "r", "o", "l", "l", "e", "r", "\n">>

\* before_action :authenticate_user!
tAuthGate ==
    <<"b", "e", "f", "o", "r", "e", "_", "a", "c", "t", "i", "o", "n", " ",
      ":", "a", "u", "t", "h", "e", "n", "t", "i", "c", "a", "t", "e", "_",
      "u", "s", "e", "r", "!">>

(***************************************************************************)
(* Security agent: detectSecrets.                                          *)
(***************************************************************************)
SecretPattern(head, opt, tail, seps, global, type) ==
    [head |-> head, opt |-> opt, tail |-> tail, seps |-> seps,
     global |-> global, type |-> type]

\* The secretPatterns: head [opt]? tail \s* [=:] \s* ['"] ([^'"]+) ['"], with
\* the i flag and, as written, without the g flag.
SecretPatterns ==
    << SecretPattern(sPassword, {}, << >>, {"=", ":"}, FALSE, "password"),
       SecretPattern(sApiKey, {"_", "-"}, sKey, {"=", ":"}, FALSE, "api-key"),
       SecretPattern(sSecret, {}, << >>, {"=", ":"}, FALSE, "secret"),
       SecretPattern(sToken, {}, << >>, {"=", ":"}, FALSE, "token") >>

\* The pattern matches text[i..e-1]: the head at i, the optional character,
\* the tail ending before s, spaces up to the separator at b, spaces up to
\* the opening quote at c, one or more other characters, the closing quote
\* at e-1.
SecretMatchSpan(text, i, e, pat) ==
    /\ StartsWithAtI(text, i, pat.head)
    /\ \E skip \in {0, 1}, b \in i..e, c \in i..e :
         LET s == i + Len(pat.head) + skip + Len(pat.tail)
         IN  /\ skip = 1 => /\ s - Len(pat.tail) - 1 <= Len(text)
                            /\ text[s - Len(pat.tail) - 1] \in pat.opt
             /\ StartsWithAtI(text, s - Len(pat.tail), pat.tail)
             /\ s <= b /\ b < c /\ c + 2 <= e - 1 /\ e - 1 <= Len(text)
             /\ AllSpace(text, s, b - 1)
             /\ text[b] \in pat.seps
             /\ AllSpace(text, b + 1, c - 1)
             /\ IsQuote(text[c])
             /\ NoQuote(text, c + 1, e - 2)
             /\ IsQuote(text[e - 1])

\* Where the match of the pattern starting at i ends (the index after it), 0
\* if the pattern does not match at i.  Each quantifier of the pattern is
\* followed by a class disjoint from its own, so a match at i has one end.
SecretMatchEnd(text, i, pat) ==
    MinOrZero({e \in (i + 1)..(Len(text) + 1) : SecretMatchSpan(text, i, e, pat)})

\* pattern.test(text)
SecretTest(text, pat) ==
    \E i \in 1..Len(text) : SecretMatchEnd(text, i, pat) > 0

\* Where the leftmost match from index from on starts, 0 if there is none.
SecretNextMatch(text, from, pat) ==
    MinOrZero({i \in from..Len(text) : SecretMatchEnd(text, i, pat) > 0})

\* The match.index of the successive matches of a global pattern: leftmost
\* first, each search resuming where the last match ended.
RECURSIVE SecretMatchIndexes(_, _, _)
SecretMatchIndexes(text, from, pat) ==
    IF SecretNextMatch(text, from, pat) = 0 THEN << >>
    ELSE <<SecretNextMatch(text, from, pat) - 1>>
         \o SecretMatchIndexes(
              text, SecretMatchEnd(text, SecretNextMatch(text, from, pat), pat),
              pat)

\* text.matchAll(pattern): a TypeError unless the pattern has the g flag.
MatchAll(text, pat) ==
    IF ~pat.global
    THEN [threw |-> TRUE, matches |-> << >>]
    ELSE [threw |-> FALSE, matches |-> SecretMatchIndexes(text, 1, pat)]

\* secrets.push({type, position: match.index}) for each match
SecretsOf(type, matches) ==
    [k \in 1..Len(matches) |-> [type |-> type, position |-> matches[k]]]

Prepend(found, rest) ==
    IF found.threw \/ rest.threw
    THEN [threw |-> TRUE, secrets |-> << >>]
    ELSE [threw |-> FALSE, secrets |-> found.secrets \o rest.secrets]

\* The secretPatterns.forEach of detectSecrets from pattern k on: the first
\* matchAll that throws ends it.
RECURSIVE CollectSecrets(_, _, _)
CollectSecrets(text, patterns, k) ==
    IF k > Len(patterns) THEN [threw |-> FALSE, secrets |-> << >>]
    ELSE IF MatchAll(text, patterns[k]).threw
    THEN [threw |-> TRUE, secrets |-> << >>]
    ELSE Prepend([threw |-> FALSE,
                  secrets |-> SecretsOf(patterns[k].type,
                                        MatchAll(text, patterns[k]).matches)],
                 CollectSecrets(text, patterns, k + 1))

\* detectSecrets(code)
DetectSecrets(text) == CollectSecrets(text, SecretPatterns, 1)

(***************************************************************************)
(* Security agent: the other detectors and scanVulnerabilities.            *)
(***************************************************************************)
\* /call\([^)]*\+/.test(text)
CallWithPlus(text, call) ==
    \E i \in 1..Len(text) :
        /\ StartsWithAt(text, i, call)
        /\ \E j \in (i + Len(call))..Len(text) :
             /\ text[j] = "+"
             /\ \A k \in (i + Len(call))..(j - 1) : text[k] # ")"

\* /\$\{[^}]*sql/i.test(text)
TemplateWithSql(text) ==
    \E i \in 1..Len(text) :
        /\ StartsWithAt(text, i, sDollarBrace)
        /\ \E j \in (i + 2)..Len(text) :
             /\ StartsWithAtI(text, j, sSql)
             /\ \A k \in (i + 2)..(j - 1) : text[k] # "}"

\* detectSQLInjection(code)
DetectSQLInjection(text) ==
    \/ CallWithPlus(text, sWhereCall)
    \/ CallWithPlus(text, sExecuteCall)
    \/ TemplateWithSql(text)

DetectXSSUnlessSanitized(text) ==
    /\ \/ Includes(text, sHtmlSafe)
       \/ Includes(text, sRawCall)
       \/ Includes(text, sInnerHTML)
    /\ ~Includes(text, sSanitize)

\* detectXSS(code)
DetectXSS(text) ==
    \/ Includes(text, sHtmlSafe)
    \/ Includes(text, sRawCall)
    \/ (Includes(text, sInnerHTML) /\ ~Includes(text, sSanitize))

\* detectCSRF(code)
DetectCSRF(text) ==
    /\ Includes(text, sClass)
    /\ Includes(text, sController)
    /\ ~Includes(text, sProtectFromForgery)

Finding(type, severity, details) ==
    [type |-> type, severity |-> severity, details |-> details]

\* if (cond) list.push(finding)
PushIf(cond, finding) == IF cond THEN <<finding>> ELSE << >>

SeverityWeightNoCritical(severity) ==
    CASE severity = "high" -> 7
      [] severity = "medium" -> 4
      [] severity = "low" -> 1
      [] OTHER -> 0

\* The switch of calculateRiskScore: what a finding adds to the score.
SeverityWeight(severity) ==
    CASE severity = "critical" -> 10
      [] severity = "high" -> 7
      [] severity = "medium" -> 4
      [] severity = "low" -> 1
      [] OTHER -> 0

\* The forEach of calculateRiskScore.
RECURSIVE SumWeights(_)
SumWeights(findings) ==
    IF findings = << >> THEN 0
    ELSE SeverityWeight(Head(findings).severity) + SumWeights(Tail(findings))

\* Math.min(100, score)
MinHundred(score) == IF score > 100 THEN 100 ELSE score

CalculateRiskScoreUncapped(findings) == SumWeights(findings)

\* calculateRiskScore(vulnerabilities)
CalculateRiskScore(findings) == MinHundred(SumWeights(findings))

\* The object a scanning method returns: its findings and its score.
ScanResult(findings, score) ==
    Return("object", [findings |-> findings, score |-> score])

WithRiskScore(vulnerabilities) ==
    ScanResult(vulnerabilities, CalculateRiskScore(vulnerabilities))

\* scanVulnerabilities from detectSecrets on.
ScanFrom(before, found, after) ==
    IF found.threw
    THEN Throw("TypeError",
               "String.prototype.matchAll called with a non-global RegExp argument")
    ELSE WithRiskScore(
           before
           \o PushIf(Len(found.secrets) > 0,
                     Finding("hardcoded-secrets", "critical", found.secrets))
           \o after)

\* scanVulnerabilities(args), for args.code a string.
ScanVulnerabilities(text) ==
    ScanFrom(PushIf(DetectSQLInjection(text),
                    Finding("sql-injection", "critical", << >>))
             \o PushIf(DetectXSS(text), Finding("xss", "high", << >>)),
             DetectSecrets(text),
             PushIf(DetectCSRF(text), Finding("csrf", "medium", << >>)))

RailsAuthIssuesBoth(text) ==
    PushIf(/\ Includes(text, sClass)
           /\ Includes(text, sController)
           /\ ~Includes(text, sBeforeAction)
           /\ ~Includes(text, sAuthenticate),
           Finding("missing-authentication", "high", << >>))

\* The rails branch of checkAuthentication.
RailsAuthIssues(text) ==
    PushIf(/\ Includes(text, sClass)
           /\ Includes(text, sController)
           /\ (~Includes(text, sBeforeAction) \/ ~Includes(text, sAuthenticate)),
           Finding("missing-authentication", "high", << >>))

\* The react-native branch of checkAuthentication.
ReactNativeAuthIssues(text) ==
    PushIf(/\ (Includes(text, sFetch) \/ Includes(text, sAxios))
           /\ ~Includes(text, sAuthorization)
           /\ ~Includes(text, sBearer),
           Finding("missing-auth-header", "medium", << >>))

\* checkAuthentication(args), for args.code a string; the score stands for
\* secure: issues.length === 0.
CheckAuthentication(text, fw) ==
    ScanResult(CASE fw = "rails" -> RailsAuthIssues(text)
                 [] fw = "react-native" -> ReactNativeAuthIssues(text)
                 [] OTHER -> << >>,
               0)

(***************************************************************************)
(* Code review agent: checkSecurity.                                       *)
(***************************************************************************)
\* The secret patterns of checkSecurity: = only, and used with test().
ReviewSecretPatterns ==
    << SecretPattern(sPassword, {}, << >>, {"="}, FALSE, "password"),
       SecretPattern(sApiKey, {"_", "-"}, sKey, {"="}, FALSE, "api-key"),
       SecretPattern(sSecret, {}, << >>, {"="}, FALSE, "secret"),
       SecretPattern(sToken, {}, << >>, {"="}, FALSE, "token") >>

\* code.match(/where\(.*\+.*\)/): on one line, where( ... + ... )
WhereConcatOnLine(text) ==
    \E i \in 1..Len(text) :
        /\ StartsWithAt(text, i, sWhereCall)
        /\ \E j \in (i + 6)..Len(text), k \in (i + 7)..Len(text) :
             /\ j < k
             /\ text[j] = "+"
             /\ text[k] = ")"
             /\ \A m \in (i + 6)..k : text[m] # "\n"

\* secretPatterns.forEach(pattern => { if (pattern.test(code)) issues.push })
RECURSIVE ReviewSecretIssues(_, _)
ReviewSecretIssues(text, k) ==
    IF k > Len(ReviewSecretPatterns) THEN << >>
    ELSE PushIf(SecretTest(text, ReviewSecretPatterns[k]),
                Finding("security", "critical", << >>))
         \o ReviewSecretIssues(text, k + 1)

\* checkSecurity(args), for args.code a string.
CheckSecurity(text) ==
    ScanResult(
      PushIf(Includes(text, sWhereCall) /\ WhereConcatOnLine(text),
             Finding("security", "high", << >>))
      \o PushIf(Includes(text, sHtmlSafe) \/ Includes(text, sRawCall),
                Finding("security", "medium", << >>))
      \o ReviewSecretIssues(text, 1)
      \o PushIf(/\ Includes(text, sParamsIndex)
                /\ Includes(text, sUpdateCall)
                /\ ~Includes(text, sPermit),
                Finding("security", "high", << >>)),
      0)

(***************************************************************************)
(* The scanning tools, called through the call-tool handler.               *)
(***************************************************************************)
ScannerTools == {"scan-vulnerabilities", "check-authentication", "check-security"}

\* handler: async (args) => this.<method>(args)
ScannerOutcome(tool, text, fw) ==
    CASE tool = "scan-vulnerabilities" -> ScanVulnerabilities(text)
      [] tool = "check-authentication" -> CheckAuthentication(text, fw)
      [] OTHER -> CheckSecurity(text)

\* The texts scanned: up to MaxFragments of these pieces, one after another.
ScanFragments ==
    { tPasswordExample, tPlainClass, tWhereConcat, tApiKeyUpper, tTokenOpen,
      sController, sHtmlSafe, sInnerHTML, sSanitize, sAuthenticate,
      sBeforeAction, <<"\n">> }

RECURSIVE Texts(_)
Texts(n) ==
    IF n = 0 THEN {<< >>}
    ELSE Texts(n - 1) \cup {t \o f : t \in Texts(n - 1), f \in ScanFragments}

ScanTexts == Texts(MaxFragments)

InitScan ==
    /\ tools = << >>
    /\ listSet = FALSE
    /\ initialized = TRUE
    /\ reqs = << >>
    /\ calls = << >>
    /\ lastList = [kind |-> "none", at |-> 0, tools |-> << >>]
    /\ sigints = << >>
    /\ closed = 0
    /\ exited = FALSE
    /\ exitCode = -1
    /\ code \in ScanTexts
    /\ framework \in {"rails", "react-native"}
    /\ scanResp = [t \in ScannerTools |-> NoResponse]
    /\ xss = Idle
    /\ vulns = << >>
    /\ riskScore = -1
    /\ riskPlus = -1
    /\ AgentsIdle

\* A call-tool request for a scanning tool with {code, framework}: the handler
\* is called and its outcome wrapped by the call-tool handler.
CallScanner(tool) ==
    /\ scanResp[tool].kind = "none"
    /\ scanResp' = [scanResp EXCEPT
                      ![tool] = WrapOutcome(ScannerOutcome(tool, code, framework))]
    /\ UNCHANGED <<hostVars, code, framework, xss, riskVars,
                   agentVars>>

NextScan == \E tool \in ScannerTools : CallScanner(tool)

SpecScan == InitScan /\ [][NextScan]_vars

(***************************************************************************)
(* calculateRiskScore over lists of findings.                              *)
(***************************************************************************)
Severities == {"critical", "high", "medium", "low", "info"}

RECURSIVE Repeat(_, _)
Repeat(x, n) == IF n = 0 THEN << >> ELSE <<x>> \o Repeat(x, n - 1)

RECURSIVE SeverityLists(_)
SeverityLists(n) ==
    IF n = 0 THEN {<< >>}
    ELSE SeverityLists(n - 1)
         \cup {l \o <<s>> : l \in SeverityLists(n - 1), s \in Severities}

\* The lists scored: up to MaxPad critical findings followed by up to MaxMixed
\* findings of any severity.
RiskLists ==
    { [k \in 1..Len(l) |-> Finding("finding", l[k], << >>)] :
        l \in { Repeat("critical", p) \o m :
                  p \in 0..MaxPad, m \in SeverityLists(MaxMixed) } }

InitRisk ==
    /\ tools = << >>
    /\ listSet = FALSE
    /\ initialized = FALSE
    /\ reqs = << >>
    /\ calls = << >>
    /\ lastList = [kind |-> "none", at |-> 0, tools |-> << >>]
    /\ sigints = << >>
    /\ closed = 0
    /\ exited = FALSE
    /\ exitCode = -1
    /\ code = << >>
    /\ framework = "rails"
    /\ scanResp = << >>
    /\ xss = Idle
    /\ vulns \in RiskLists
    /\ riskScore = -1
    /\ riskPlus = -1
    /\ AgentsIdle

\* riskScore: this.calculateRiskScore(vulnerabilities)
ScoreRisk ==
    /\ riskScore = -1
    /\ riskScore' = CalculateRiskScore(vulns)
    /\ UNCHANGED <<hostVars, scanVars, vulns, riskPlus, agentVars>>

\* calculateRiskScore on the list after one more
\* vulnerabilities.push({..., severity: 'critical', ...})
ScoreWithCritical ==
    /\ riskPlus = -1
    /\ riskPlus' = CalculateRiskScore(
                     Append(vulns, Finding("finding", "critical", << >>)))
    /\ UNCHANGED <<hostVars, scanVars, vulns, riskScore, agentVars>>

NextRisk == ScoreRisk \/ ScoreWithCritical

SpecRisk == InitRisk /\ [][NextRisk]_vars

(***************************************************************************)
(* Properties of the security agent.                                       *)
(***************************************************************************)
ScanDone(tool) == scanResp # << >> /\ scanResp[tool].kind # "none"

\* C8: scan-vulnerabilities on password = "abc123" answers without error, and
\* its vulnerabilities hold one hardcoded-secrets finding whose details are
\* one secret, of type password, at its offset in the text.
C8_PasswordSecretReported ==
    (code = tPasswordExample /\ ScanDone("scan-vulnerabilities")) =>
        /\ ~scanResp["scan-vulnerabilities"].isError
        /\ LET found == scanResp["scan-vulnerabilities"].text[2].findings
               secrets == {k \in 1..Len(found) :
                             found[k].type = "hardcoded-secrets"}
           IN  /\ Cardinality(secrets) = 1
               /\ \A k \in secrets :
                    found[k].details = <<[type |-> "password", position |-> 0]>>

\* C9: every scanning tool answers every text with a result, never with an
\* error response.
C9_ScannersTotal ==
    \A tool \in ScannerTools :
        ScanDone(tool) =>
            /\ scanResp[tool].kind = "result"
            /\ ~scanResp[tool].isError

CountOf(severity) ==
    Cardinality({k \in 1..Len(vulns) : vulns[k].severity = severity})

WeightedCount ==
    10 * CountOf("critical") + 7 * CountOf("high") + 4 * CountOf("medium")
    + CountOf("low")

\* C10: calculateRiskScore returns min(100, 10*#critical + 7*#high +
\* 4*#medium + #low), findings of another severity adding nothing, and the
\* result is an integer from 0 to 100.
C10_RiskScoreFormula ==
    riskScore # -1 =>
        /\ riskScore = (IF WeightedCount < 100 THEN WeightedCount ELSE 100)
        /\ riskScore \in 0..100

\* A capped score: the weights add up to more than 100 and the list holds a
\* finding of a severity without weight.
C10_Witness ==
    /\ riskScore = 100
    /\ WeightedCount > 100
    /\ CountOf("info") > 0
    /\ CountOf("high") > 0

\* C11: the risk score of a list with one more critical finding is never
\* lower; it is strictly greater unless the score plus 10 exceeds the cap,
\* and then it is 100.
C11_RiskScoreMonotone ==
    (riskScore # -1 /\ riskPlus # -1) =>
        /\ riskPlus >= riskScore
        /\ IF riskScore + 10 > 100 THEN riskPlus = 100
           ELSE riskPlus > riskScore

\* A score below the cap that one more critical finding takes to the cap.
C11_Witness ==
    /\ riskScore > 90
    /\ riskScore < 100
    /\ riskPlus = 100

(***************************************************************************)
(* The specifications below each run one function of an agent whose tool   *)
(* host, scanners and risk score stay as they are before any request.      *)
(***************************************************************************)
IdleHost ==
    /\ tools = << >>
    /\ listSet = FALSE
    /\ initialized = FALSE
    /\ reqs = << >>
    /\ calls = << >>
    /\ lastList = [kind |-> "none", at |-> 0, tools |-> << >>]
    /\ sigints = << >>
    /\ closed = 0
    /\ exited = FALSE
    /\ exitCode = -1
    /\ code = << >>
    /\ framework = "rails"
    /\ scanResp = << >>
    /\ xss = Idle
    /\ vulns = << >>
    /\ riskScore = -1
    /\ riskPlus = -1

\* Every variable of agentVars but those named in running is idle.
OthersIdle(running) ==
    /\ IF "quality" \in running THEN TRUE ELSE quality = Idle
    /\ IF "sim" \in running THEN TRUE ELSE sim = Idle
    /\ IF "orch" \in running THEN TRUE ELSE orch = Idle
    /\ IF "doc" \in running THEN TRUE ELSE doc = Idle
    /\ IF "gen" \in running THEN TRUE ELSE gen = Idle
    /\ IF "pr" \in running THEN TRUE ELSE pr = Idle

\* Math.max(0, score)
MaxZero(score) == IF score < 0 THEN 0 ELSE score

(***************************************************************************)
(* Clean code agent: calculateQualityScore.                                *)
(***************************************************************************)
ComplexityPenaltyUncapped(complexity) == complexity * 2

\* Math.min(metrics.complexity * 2, 30)
ComplexityPenalty(complexity) ==
    IF complexity * 2 < 30 THEN complexity * 2 ELSE 30

\* The switch of calculateQualityScore: what a smell takes from the score.
SmellPenalty(severity) ==
    CASE severity = "high" -> 15
      [] severity = "medium" -> 10
      [] severity = "low" -> 5
      [] OTHER -> 0

\* The forEach of calculateQualityScore.
RECURSIVE SumSmellPenalties(_)
SumSmellPenalties(smells) ==
    IF smells = << >> THEN 0
    ELSE SmellPenalty(Head(smells).severity) + SumSmellPenalties(Tail(smells))

CalculateQualityScoreNoFloor(metrics, smells) ==
    100 - ComplexityPenalty(metrics.complexity) - SumSmellPenalties(smells)

\* calculateQualityScore(metrics, smells)
CalculateQualityScore(metrics, smells) ==
    MaxZero(100 - ComplexityPenalty(metrics.complexity)
            - SumSmellPenalties(smells))

SmellSeverities == {"high", "medium", "low", "info"}

RECURSIVE SmellSeverityLists(_)
SmellSeverityLists(n) ==
    IF n = 0 THEN {<< >>}
    ELSE SmellSeverityLists(n - 1)
         \cup {l \o <<s>> : l \in SmellSeverityLists(n - 1),
                            s \in SmellSeverities}

\* The smell lists scored: up to MaxHighSmells high smells followed by up to
\* MaxSmells smells of any severity.
SmellLists ==
    { [k \in 1..Len(l) |-> [type |-> "smell", severity |-> l[k]]] :
        l \in { Repeat("high", p) \o m :
                  p \in 0..MaxHighSmells, m \in SmellSeverityLists(MaxSmells) } }

\* metrics.complexity is estimateComplexity(code): 1 and one more for each
\* control keyword found.
InitQuality ==
    /\ IdleHost
    /\ OthersIdle({"quality"})
    /\ quality \in [pc : {"ready"},
                    metrics : [complexity : 1..MaxComplexity],
                    smells : SmellLists,
                    score : {-1}]

\* qualityScore: this.calculateQualityScore(metrics, smells)
ScoreQuality ==
    /\ quality.pc = "ready"
    /\ quality' = [quality EXCEPT
                     !.pc = "done",
                     !.score = CalculateQualityScore(quality.metrics,
                                                     quality.smells)]
    /\ UNCHANGED <<hostVars, scanVars, riskVars, sim, orch, doc, gen, pr>>

NextQuality == ScoreQuality

SpecQuality == InitQuality /\ [][NextQuality]_vars

SmellCount(severity) ==
    Cardinality({k \in 1..Len(quality.smells) :
                   quality.smells[k].severity = severity})

QualityPenalties ==
    (IF 2 * quality.metrics.complexity < 30
     THEN 2 * quality.metrics.complexity ELSE 30)
    + 15 * SmellCount("high") + 10 * SmellCount("medium")
    + 5 * SmellCount("low")

\* C12: calculateQualityScore returns max(0, 100 - min(2*complexity, 30) -
\* 15*#high - 10*#medium - 5*#low); it is from 0 to 100, and is 0 whenever
\* the penalties add up to 100 or more.
C12_QualityScoreFormula ==
    quality.pc = "done" =>
        /\ quality.score =
             (IF QualityPenalties > 100 THEN 0 ELSE 100 - QualityPenalties)
        /\ quality.score \in 0..100
        /\ QualityPenalties >= 100 => quality.score = 0

\* A floored score: penalties above 100, with the complexity penalty capped
\* and a smell of a severity without penalty in the list.
C12_Witness ==
    /\ quality.pc = "done"
    /\ quality.score = 0
    /\ QualityPenalties > 100
    /\ quality.metrics.complexity > 15
    /\ SmellCount("info") > 0

(***************************************************************************)
(* Clean code agent: levenshteinDistance and calculateSimilarity.          *)
(***************************************************************************)
Min3(x, y, z) ==
    IF x <= y /\ x <= z THEN x ELSE IF y <= z THEN y ELSE z

SubstitutionCostTwo(c1, c2) == IF c1 = c2 THEN 0 ELSE 2

\* const cost = str1[i - 1] === str2[j - 1] ? 0 : 1
SubstitutionCost(c1, c2) == IF c1 = c2 THEN 0 ELSE 1

\* Row j of the matrix, from the row above it and the cells of row j filled
\* so far (cell i of a row is its element i + 1): matrix[j][0] = j and, left
\* to right, matrix[j][i] = Math.min(matrix[j][i - 1] + 1,
\* matrix[j - 1][i] + 1, matrix[j - 1][i - 1] + cost).
RECURSIVE MatrixRowAfter(_, _, _, _, _)
MatrixRowAfter(row, above, j, str1, str2) ==
    IF Len(row) > Len(str1) THEN row
    ELSE MatrixRowAfter(
           Append(row,
                  Min3(row[Len(row)] + 1,
                       above[Len(row) + 1] + 1,
                       above[Len(row)]
                       + SubstitutionCost(str1[Len(row)], str2[j]))),
           above, j, str1, str2)

\* Row j of the matrix: matrix[0][i] = i, the others by the double loop.
RECURSIVE MatrixRow(_, _, _)
MatrixRow(j, str1, str2) ==
    IF j = 0 THEN [i \in 1..(Len(str1) + 1) |-> i - 1]
    ELSE LET above == MatrixRow(j - 1, str1, str2)
         IN  IF Len(above) = Len(str1) + 1
             THEN MatrixRowAfter(<<j>>, above, j, str1, str2)
             ELSE above

\* levenshteinDistance(str1, str2): matrix[str2.length][str1.length]
LevenshteinDistance(str1, str2) ==
    MatrixRow(Len(str2), str1, str2)[Len(str1) + 1]

\* The quotient num / den of two integers; 0 / 0 is NaN.
Quotient(num, den) == [num |-> num, den |-> den]

CalculateSimilarityByShorter(str1, str2) ==
    Quotient((IF Len(str1) > Len(str2) THEN Len(str2) ELSE Len(str1))
             - LevenshteinDistance(str1, str2),
             IF Len(str1) > Len(str2) THEN Len(str2) ELSE Len(str1))

\* calculateSimilarity(str1, str2):
\* (longer.length - editDistance) / longer.length
CalculateSimilarity(str1, str2) ==
    Quotient((IF Len(str1) > Len(str2) THEN Len(str1) ELSE Len(str2))
             - LevenshteinDistance(str1, str2),
             IF Len(str1) > Len(str2) THEN Len(str1) ELSE Len(str2))

SimilarityAlphabet == {"a", "b"}

RECURSIVE StringsOver(_, _)
StringsOver(alphabet, n) ==
    IF n = 0 THEN {<< >>}
    ELSE StringsOver(alphabet, n - 1)
         \cup {s \o <<c>> : s \in StringsOver(alphabet, n - 1), c \in alphabet}

\* The lines compared: every string of up to MaxStrLen characters of the
\* alphabet, "abc" and "xyz".
SimilarityStrings ==
    StringsOver(SimilarityAlphabet, MaxStrLen)
    \cup {<<"a", "b", "c">>, <<"x", "y", "z">>}

NoComparison == [distance |-> -1, similarity |-> Quotient(0, 0)]

InitSimilarity ==
    /\ IdleHost
    /\ OthersIdle({"sim"})
    /\ sim \in [pc : {"ready"},
                str1 : SimilarityStrings,
                str2 : SimilarityStrings,
                forward : {NoComparison},
                backward : {NoComparison}]

Comparison(str1, str2) ==
    [distance |-> LevenshteinDistance(str1, str2),
     similarity |-> CalculateSimilarity(str1, str2)]

\* const similarity = this.calculateSimilarity(lines[i], lines[j])
CompareLines ==
    /\ sim.pc = "ready"
    /\ sim.forward = NoComparison
    /\ sim' = [sim EXCEPT !.forward = Comparison(sim.str1, sim.str2)]
    /\ UNCHANGED <<hostVars, scanVars, riskVars, quality, orch, doc, gen, pr>>

\* The same call with the two lines swapped.
CompareLinesSwapped ==
    /\ sim.pc = "ready"
    /\ sim.backward = NoComparison
    /\ sim' = [sim EXCEPT !.backward = Comparison(sim.str2, sim.str1)]
    /\ UNCHANGED <<hostVars, scanVars, riskVars, quality, orch, doc, gen, pr>>

NextSimilarity == CompareLines \/ CompareLinesSwapped

SpecSimilarity == InitSimilarity /\ [][NextSimilarity]_vars

Compared == sim.pc = "ready" /\ sim.forward # NoComparison

DifferEverywhere(s, t) ==
    /\ Len(s) = Len(t)
    /\ Len(s) > 0
    /\ \A k \in 1..Len(s) : s[k] # t[k]

ShareNoCharacter(s, t) ==
    /\ Len(s) = Len(t)
    /\ Len(s) > 0
    /\ \A k \in 1..Len(s), m \in 1..Len(t) : s[k] # t[m]

\* C13: calculateSimilarity(s, s) is 1 for a non-empty s; for two strings of
\* one length with no character in common (as "abc" and "xyz") it is 0, so
\* below 0.5; for two strings not both empty it is from 0 to 1.
C13_SimilarityRange ==
    Compared =>
        LET q == sim.forward.similarity
        IN  /\ (sim.str1 = sim.str2 /\ sim.str1 # << >>) =>
                   (q.den > 0 /\ q.num = q.den)
            /\ ShareNoCharacter(sim.str1, sim.str2) =>
                   (q.den > 0 /\ q.num = 0 /\ 2 * q.num < q.den)
            /\ (sim.str1 # << >> \/ sim.str2 # << >>) =>
                   (q.den > 0 /\ 0 <= q.num /\ q.num <= q.den)

\* C13 as stated: below 0.5 for every two strings of one length that differ
\* at every position.
C13_SimilarityAsStated ==
    Compared =>
        LET q == sim.forward.similarity
        IN  /\ (sim.str1 = sim.str2 /\ sim.str1 # << >>) =>
                   (q.den > 0 /\ q.num = q.den)
            /\ DifferEverywhere(sim.str1, sim.str2) =>
                   (q.den > 0 /\ 2 * q.num < q.den)
            /\ (sim.str1 # << >> \/ sim.str2 # << >>) =>
                   (q.den > 0 /\ 0 <= q.num /\ q.num <= q.den)

\* "abc" compared with "xyz".
C13_Witness ==
    /\ Compared
    /\ sim.str1 = <<"a", "b", "c">>
    /\ sim.str2 = <<"x", "y", "z">>
    /\ sim.forward.similarity = Quotient(0, 3)

\* The edit distance by its definition: what remains of s and t after their
\* first characters are deleted, inserted or substituted at a cost of 1
\* each, a matching character costing nothing.
RECURSIVE EditDistance(_, _)
EditDistance(s, t) ==
    IF s = << >> THEN Len(t)
    ELSE IF t = << >> THEN Len(s)
    ELSE Min3(EditDistance(Tail(s), t) + 1,
              EditDistance(s, Tail(t)) + 1,
              EditDistance(Tail(s), Tail(t))
              + (IF Head(s) = Head(t) THEN 0 ELSE 1))

LongerLen == IF Len(sim.str1) > Len(sim.str2) THEN Len(sim.str1) ELSE Len(sim.str2)

\* C20: levenshteinDistance(a, b) is the edit distance with insertion,
\* deletion and substitution at 1 each; it is symmetric, 0 exactly when
\* a = b, the length of the other string when one is empty, and
\* calculateSimilarity(a, b) is (longerLen - distance) / longerLen.
C20_LevenshteinIsEditDistance ==
    Compared =>
        /\ sim.forward.distance = EditDistance(sim.str1, sim.str2)
        /\ sim.backward # NoComparison =>
               sim.backward.distance = sim.forward.distance
        /\ (sim.forward.distance = 0) <=> (sim.str1 = sim.str2)
        /\ sim.str1 = << >> => sim.forward.distance = Len(sim.str2)
        /\ sim.str2 = << >> => sim.forward.distance = Len(sim.str1)
        /\ sim.forward.similarity.num = LongerLen - sim.forward.distance
        /\ sim.forward.similarity.den = LongerLen

\* Two different strings of different lengths compared both ways, where a
\* substitution is part of the cheapest edit.
C20_Witness ==
    /\ Compared
    /\ sim.backward # NoComparison
    /\ Len(sim.str1) = 2
    /\ Len(sim.str2) = 3
    /\ sim.forward.distance = 2

(***************************************************************************)
(* Orchestrator: analyzeCode and generateSummary.                          *)
(***************************************************************************)
\* The keys of results.agents, in the order analyzeCode fills them.
AgentKeys == <<"codeReview", "bestPractices", "cleanCode", "security">>

\* The key of this.config.agents each one is enabled by.
ConfigName(key) ==
    CASE key = "codeReview" -> "code-review-agent"
      [] key = "bestPractices" -> "best-practices-agent"
      [] key = "cleanCode" -> "clean-code-agent"
      [] OTHER -> "security-agent"

\* A key of results.agents that was not set.
NotRun == [ran |-> FALSE]

\* runCodeReview, runBestPractices, runCleanCode, runSecurity
RunAgent(key) ==
    CASE key = "codeReview" ->
           [ran |-> TRUE, score |-> 85, issues |-> << >>, suggestions |-> << >>]
      [] key = "bestPractices" ->
           [ran |-> TRUE, score |-> 90, practices |-> << >>,
            violations |-> << >>]
      [] key = "cleanCode" ->
           [ran |-> TRUE, qualityScore |-> 88, smells |-> << >>]
      [] OTHER ->
           [ran |-> TRUE, riskScore |-> 20, vulnerabilities |-> << >>]

MergeEveryAgent(merged, key, agentResults) ==
    IF ~agentResults[key].ran THEN merged
    ELSE CASE key = "codeReview" ->
                [scores |-> Append(merged.scores, agentResults[key].score),
                 allIssues |-> merged.allIssues \o agentResults[key].issues]
           [] key = "bestPractices" ->
                [scores |-> Append(merged.scores, agentResults[key].score),
                 allIssues |-> merged.allIssues \o agentResults[key].violations]
           [] key = "cleanCode" ->
                [scores |-> Append(merged.scores, agentResults[key].qualityScore),
                 allIssues |-> merged.allIssues \o agentResults[key].smells]
           [] OTHER ->
                [scores |-> merged.scores,
                 allIssues |-> merged.allIssues
                               \o agentResults[key].vulnerabilities]

\* scores.push(...) and allIssues.push(...) for one key of agentResults, where
\* generateSummary reads it.
MergeAgent(merged, key, agentResults) ==
    IF ~agentResults[key].ran THEN merged
    ELSE CASE key = "codeReview" ->
                [scores |-> Append(merged.scores, agentResults[key].score),
                 allIssues |-> merged.allIssues \o agentResults[key].issues]
           [] key = "bestPractices" ->
                [scores |-> Append(merged.scores, agentResults[key].score),
                 allIssues |-> merged.allIssues \o agentResults[key].violations]
           [] OTHER -> merged

\* The two ifs of generateSummary, taken in the order given.
RECURSIVE MergeInOrder(_, _)
MergeInOrder(order, agentResults) ==
    IF order = << >> THEN [scores |-> << >>, allIssues |-> << >>]
    ELSE MergeAgent(MergeInOrder(SubSeq(order, 1, Len(order) - 1), agentResults),
                    order[Len(order)], agentResults)

\* scores.reduce((a, b) => a + b, 0)
RECURSIVE SumScores(_)
SumScores(scores) ==
    IF scores = << >> THEN 0 ELSE Head(scores) + SumScores(Tail(scores))

RoundDown(num, den) == num \div den

\* Math.round(num / den) for den > 0: the nearest integer, a half going up.
Round(num, den) == (2 * num + den) \div (2 * den)

AverageScoreOfLast(scores) ==
    IF Len(scores) > 0 THEN scores[Len(scores)] ELSE 0

\* const avgScore = scores.length > 0 ? Math.round(sum / scores.length) : 0
AverageScore(scores) ==
    IF Len(scores) > 0 THEN Round(SumScores(scores), Len(scores)) ELSE 0

IsCriticalOnly(issue) == issue.severity = "critical"

\* i => i.severity === 'critical' || i.severity === 'high'
IsCritical(issue) == issue.severity = "critical" \/ issue.severity = "high"

\* allIssues.filter(...).length
CountCritical(allIssues) ==
    Cardinality({k \in 1..Len(allIssues) : IsCritical(allIssues[k])})

Recommendation(criticalIssues) ==
    IF criticalIssues > 0 THEN "Fix critical issues before merging"
    ELSE "Code quality looks good"

\* The object generateSummary returns.
SummaryOf(merged) ==
    [overallScore |-> AverageScore(merged.scores),
     totalIssues |-> Len(merged.allIssues),
     criticalIssues |-> CountCritical(merged.allIssues),
     recommendation |-> Recommendation(CountCritical(merged.allIssues))]

GenerateSummaryOfAll(agentResults) ==
    SummaryOf(
      MergeEveryAgent(
        MergeEveryAgent(
          MergeInOrder(<<"codeReview", "bestPractices">>, agentResults),
          "cleanCode", agentResults),
        "security", agentResults))

\* generateSummary(agentResults)
GenerateSummary(agentResults) ==
    SummaryOf(MergeInOrder(<<"codeReview", "bestPractices">>, agentResults))

NoSummary ==
    [overallScore |-> -1, totalIssues |-> -1, criticalIssues |-> -1,
     recommendation |-> ""]

IssueSeverities == {"critical", "high", "low"}

RECURSIVE IssueLists(_)
IssueLists(n) ==
    IF n = 0 THEN {<< >>}
    ELSE IssueLists(n - 1)
         \cup {l \o <<[type |-> "issue", severity |-> s]>> :
                 l \in IssueLists(n - 1), s \in IssueSeverities}

ScoreChoices == {70, 85, 90}

\* The results generateSummary is given for each key: none, or a result of
\* that agent's shape.
ResultChoices(key) ==
    {NotRun} \cup
    CASE key = "codeReview" ->
           [ran : {TRUE}, score : ScoreChoices, issues : IssueLists(MaxIssues),
            suggestions : {<< >>}]
      [] key = "bestPractices" ->
           [ran : {TRUE}, score : ScoreChoices, practices : {<< >>},
            violations : IssueLists(MaxIssues)]
      [] key = "cleanCode" ->
           {RunAgent(key),
            [ran |-> TRUE, qualityScore |-> 10,
             smells |-> <<[type |-> "issue", severity |-> "high"]>>]}
      [] OTHER ->
           {RunAgent(key),
            [ran |-> TRUE, riskScore |-> 100,
             vulnerabilities |-> <<[type |-> "issue", severity |-> "critical"]>>]}

AgentNames == {AgentKeys[k] : k \in 1..Len(AgentKeys)}

GivenResults ==
    { [k \in AgentNames |->
         CASE k = "codeReview" -> cr
           [] k = "bestPractices" -> bp
           [] k = "cleanCode" -> cc
           [] OTHER -> se] :
        cr \in ResultChoices("codeReview"), bp \in ResultChoices("bestPractices"),
        cc \in ResultChoices("cleanCode"), se \in ResultChoices("security") }

\* An analyzeCode call about to run its first agent under some configuration,
\* or a generateSummary call on given results.
InitOrchestrator ==
    /\ IdleHost
    /\ OthersIdle({"orch"})
    /\ \/ orch \in [pc : {"run"}, next : {1},
                    enabled : SUBSET {ConfigName(k) : k \in AgentNames},
                    agents : {[k \in AgentNames |-> NotRun]},
                    summary : {NoSummary}]
       \/ orch \in [pc : {"summary"}, next : {Len(AgentKeys) + 1},
                    enabled : {{}},
                    agents : GivenResults,
                    summary : {NoSummary}]

\* if (this.config.agents[...]?.enabled) results.agents.<key> = await run...
RunNextAgent ==
    /\ orch.pc = "run"
    /\ orch.next <= Len(AgentKeys)
    /\ orch' = [orch EXCEPT
                  !.next = @ + 1,
                  !.pc = IF orch.next = Len(AgentKeys) THEN "summary" ELSE "run",
                  !.agents[AgentKeys[orch.next]] =
                      IF ConfigName(AgentKeys[orch.next]) \in orch.enabled
                      THEN RunAgent(AgentKeys[orch.next]) ELSE @]
    /\ UNCHANGED <<hostVars, scanVars, riskVars, quality, sim, doc, gen, pr>>

\* results.summary = this.generateSummary(results.agents)
Summarize ==
    /\ orch.pc = "summary"
    /\ orch' = [orch EXCEPT !.pc = "done",
                            !.summary = GenerateSummary(orch.agents)]
    /\ UNCHANGED <<hostVars, scanVars, riskVars, quality, sim, doc, gen, pr>>

NextOrchestrator == RunNextAgent \/ Summarize

SpecOrchestrator == InitOrchestrator /\ [][NextOrchestrator]_vars

(***************************************************************************)
(* Properties of the orchestrator summary.                                 *)
(***************************************************************************)
Summarized == orch.pc = "done"

\* The agents that ran and whose result has a score.
Scoring ==
    {k \in AgentNames : orch.agents[k].ran /\ "score" \in DOMAIN orch.agents[k]}

RECURSIVE TotalScore(_)
TotalScore(keys) ==
    IF keys = {} THEN 0
    ELSE LET k == CHOOSE x \in keys : TRUE
         IN  orch.agents[k].score + TotalScore(keys \ {k})

\* C14: overallScore is the rounded arithmetic mean of the scores of the
\* agents that ran and reported a score: the integer within a half of the
\* mean, a half going up.
C14_OverallScoreIsRoundedMean ==
    (Summarized /\ Scoring # {}) =>
        LET n == Cardinality(Scoring)
            r == orch.summary.overallScore
        IN  /\ 2 * n * r - n <= 2 * TotalScore(Scoring)
            /\ 2 * TotalScore(Scoring) < 2 * n * r + n

\* All four agents ran, two of them report a score, and the mean of the two
\* is a half.
C14_Witness ==
    /\ Summarized
    /\ \A k \in AgentNames : orch.agents[k].ran
    /\ Cardinality(Scoring) = 2
    /\ TotalScore(Scoring) % 2 = 1
    /\ 2 * orch.summary.overallScore = TotalScore(Scoring) + 1

\* The issue or violation list of an agent, empty if it did not run or has
\* none.
ReportedIssues(key) ==
    IF ~orch.agents[key].ran THEN << >>
    ELSE IF "issues" \in DOMAIN orch.agents[key] THEN orch.agents[key].issues
    ELSE IF "violations" \in DOMAIN orch.agents[key]
         THEN orch.agents[key].violations
    ELSE << >>

CriticalOrHighIn(list) ==
    Cardinality({k \in 1..Len(list) : list[k].severity \in {"critical", "high"}})

\* C15: criticalIssues counts the items of the merged issue and violation
\* lists whose severity is critical or high, totalIssues is the length of the
\* merged list, and the recommendation is 'Fix critical issues before
\* merging' exactly when criticalIssues > 0, 'Code quality looks good'
\* otherwise.
C15_CriticalIssuesAndRecommendation ==
    Summarized =>
        /\ orch.summary.criticalIssues =
             CriticalOrHighIn(ReportedIssues("codeReview"))
             + CriticalOrHighIn(ReportedIssues("bestPractices"))
        /\ orch.summary.totalIssues =
             Len(ReportedIssues("codeReview"))
             + Len(ReportedIssues("bestPractices"))
        /\ orch.summary.criticalIssues > 0 =>
             orch.summary.recommendation = "Fix critical issues before merging"
        /\ orch.summary.criticalIssues = 0 =>
             orch.summary.recommendation = "Code quality looks good"

\* High issues but no critical one, from both lists, next to a low one.
C15_Witness ==
    /\ Summarized
    /\ orch.summary.criticalIssues = 2
    /\ orch.summary.totalIssues = 3
    /\ \A k \in AgentNames : \A i \in 1..Len(ReportedIssues(k)) :
         ReportedIssues(k)[i].severity # "critical"
    /\ ReportedIssues("codeReview") # << >>
    /\ ReportedIssues("bestPractices") # << >>
    /\ orch.summary.recommendation = "Fix critical issues before merging"

\* The orders the agents' results can be merged in.
MergeOrders ==
    {o \in [1..Len(AgentKeys) -> AgentNames] :
       \A i, j \in 1..Len(AgentKeys) : i # j => o[i] # o[j]}

\* C16: merging the same agents' results in any other order gives the same
\* overallScore and the same criticalIssues.
C16_MergeOrderIndependent ==
    Summarized =>
        \A o \in MergeOrders :
            /\ SummaryOf(MergeInOrder(o, orch.agents)).overallScore
                 = orch.summary.overallScore
            /\ SummaryOf(MergeInOrder(o, orch.agents)).criticalIssues
                 = orch.summary.criticalIssues

\* Two agents with different scores and different issue lists.
C16_Witness ==
    /\ Summarized
    /\ orch.agents["codeReview"].ran
    /\ orch.agents["bestPractices"].ran
    /\ orch.agents["codeReview"].score # orch.agents["bestPractices"].score
    /\ ReportedIssues("codeReview") # ReportedIssues("bestPractices")
    /\ orch.summary.criticalIssues = 1

(***************************************************************************)
(* Documentation agent: extractRubyDocs, extractComments and               *)
(* extractParameters.                                                      *)
(***************************************************************************)
Digits == {"0", "1", "2", "3", "4", "5", "6", "7", "8", "9"}

\* \w
IsWord(c) ==
    \/ \E k \in 1..26 : UpperCase[k] = c \/ LowerCase[k] = c
    \/ c \in Digits
    \/ c = "_"

\* The largest element of a non-empty set of indexes.
MaxOf(S) == CHOOSE x \in S : \A y \in S : y <= x

\* text.substring(from - 1) in the indexes of the model: text[from..]
From(text, from) == SubSeq(text, from, Len(text))

\* text.split(sep) for a one-character separator
RECURSIVE SplitOn(_, _)
SplitOn(text, sep) ==
    IF \A k \in 1..Len(text) : text[k] # sep THEN <<text>>
    ELSE <<SubSeq(text, 1, MinOrZero({k \in 1..Len(text) : text[k] = sep}) - 1)>>
         \o SplitOn(From(text, MinOrZero({k \in 1..Len(text) : text[k] = sep}) + 1),
                    sep)

\* line.trim()
Trim(line) ==
    IF AllSpace(line, 1, Len(line)) THEN << >>
    ELSE SubSeq(line,
                MinOrZero({k \in 1..Len(line) : ~IsSpace(line[k])}),
                MaxOf({k \in 1..Len(line) : ~IsSpace(line[k])}))

\* [#\/\/\s]
IsMarkerOrSpace(c) == c = "#" \/ c = "/" \/ IsSpace(c)

\* line.replace(/^[#\/\/\s]+/, '')
StripMarkers(line) ==
    IF \A k \in 1..Len(line) : IsMarkerOrSpace(line[k]) THEN << >>
    ELSE From(line, MinOrZero({k \in 1..Len(line) : ~IsMarkerOrSpace(line[k])}))

\* line.startsWith('#') || line.startsWith('//')
IsCommentLine(line) ==
    StartsWithAt(line, 1, <<"#">>) \/ StartsWithAt(line, 1, <<"/", "/">>)

\* The loop of extractComments from line i down (lines counted from 1): at
\* most the last five lines, comment lines put in front of those found so
\* far, blank lines passed over, the first other line ending it.
RECURSIVE CommentsUpTo(_, _)
CommentsUpTo(lines, i) ==
    IF i < 1 \/ i < Len(lines) - 4 THEN << >>
    ELSE IF IsCommentLine(Trim(lines[i]))
    THEN Append(CommentsUpTo(lines, i - 1), StripMarkers(Trim(lines[i])))
    ELSE IF Len(Trim(lines[i])) > 0 THEN << >>
    ELSE CommentsUpTo(lines, i - 1)

\* parts.join(sep)
RECURSIVE Join(_, _)
Join(parts, sep) ==
    IF parts = << >> THEN << >>
    ELSE IF Len(parts) = 1 THEN parts[1]
    ELSE parts[1] \o sep \o Join(Tail(parts), sep)

\* extractComments(code, position), position counted from 0
ExtractComments(text, position) ==
    Join(CommentsUpTo(SplitOn(SubSeq(text, 1, position), "\n"),
                      Len(SplitOn(SubSeq(text, 1, position), "\n"))),
         <<" ">>)

sDef ==
    <<"d", "e", "f">>

\* keyword\s+(\w+) matches at i: where the name starts, 0 if there is no match
\* at i.
NameStartAt(text, i, keyword) ==
    IF ~StartsWithAt(text, i, keyword) THEN 0
    ELSE MinOrZero({w \in (i + Len(keyword) + 1)..Len(text) :
                      /\ AllSpace(text, i + Len(keyword), w - 1)
                      /\ IsWord(text[w])})

\* The last index of the run of \w that starts at w.
NameEnd(text, w) ==
    MaxOf({e \in w..Len(text) : \A k \in w..e : IsWord(text[k])})

\* Where the leftmost match of keyword\s+(\w+) from index from on starts, 0
\* if there is none.
NextDeclaration(text, from, keyword) ==
    MinOrZero({i \in from..Len(text) : NameStartAt(text, i, keyword) > 0})

\* (?:\([^)]*\))? after a name ending at e: the index of the closing
\* parenthesis, e if there is no such group.
SignatureEnd(text, e) ==
    IF /\ e + 1 <= Len(text)
       /\ text[e + 1] = "("
       /\ \E k \in (e + 2)..Len(text) : text[k] = ")"
    THEN MinOrZero({k \in (e + 2)..Len(text) : text[k] = ")"})
    ELSE e

\* p => p.trim() and filter(p => p) over the pieces
RECURSIVE TrimmedNonEmpty(_)
TrimmedNonEmpty(pieces) ==
    IF pieces = << >> THEN << >>
    ELSE (IF Trim(Head(pieces)) = << >> THEN << >> ELSE <<Trim(Head(pieces))>>)
         \o TrimmedNonEmpty(Tail(pieces))

\* extractParameters(methodSignature): for the first ( that a ) follows, the
\* pieces between it and the next ).
ExtractParameters(signature) ==
    IF \E i, j \in 1..Len(signature) :
         i < j /\ signature[i] = "(" /\ signature[j] = ")"
    THEN TrimmedNonEmpty(
           SplitOn(SubSeq(signature,
                          MinOrZero({i \in 1..Len(signature) :
                                       signature[i] = "("}) + 1,
                          MinOrZero({j \in 1..Len(signature) :
                                       /\ signature[j] = ")"
                                       /\ j > MinOrZero({i \in 1..Len(signature) :
                                                           signature[i] = "("})})
                          - 1),
                   ","))
    ELSE << >>

\* The section pushed for the class match at i.
ClassSection(text, i) ==
    [type |-> "class",
     name |-> SubSeq(text, NameStartAt(text, i, sClass),
                     NameEnd(text, NameStartAt(text, i, sClass))),
     description |-> ExtractComments(text, i - 1)]

\* The section pushed for the method match at i.
MethodSection(text, i) ==
    [type |-> "method",
     name |-> SubSeq(text, NameStartAt(text, i, sDef),
                     NameEnd(text, NameStartAt(text, i, sDef))),
     description |-> ExtractComments(text, i - 1),
     parameters |->
         ExtractParameters(
           SubSeq(text, i,
                  SignatureEnd(text, NameEnd(text, NameStartAt(text, i, sDef)))))]

\* for (const match of methodMatches) sections.push(...), the search going on
\* from where the last match ended.
RECURSIVE MethodSections(_, _)
MethodSections(text, from) ==
    IF NextDeclaration(text, from, sDef) = 0 THEN << >>
    ELSE <<MethodSection(text, NextDeclaration(text, from, sDef))>>
         \o MethodSections(
              text,
              SignatureEnd(text,
                           NameEnd(text,
                                   NameStartAt(text,
                                               NextDeclaration(text, from, sDef),
                                               sDef)))
              + 1)

\* extractRubyDocs(code)
ExtractRubyDocs(text) ==
    (IF NextDeclaration(text, 1, sClass) = 0 THEN << >>
     ELSE <<ClassSection(text, NextDeclaration(text, 1, sClass))>>)
    \o MethodSections(text, 1)

\* The comment lines of the units documented: a marker, a gap and the text.
CommentLines ==
    {l \in [marker : {<<"#">>, <<"/", "/">>},
            gap : {<< >>, <<" ">>},
            content : {<<"a">>, <<"b", " ", "c">>, <<"/", "a">>}] :
       l.content[1] \in {"#", "/"} => l.gap # << >>}

\* The declarations documented.
Declarations ==
    {[type |-> "method", name |-> <<"f">>, text |-> <<"d", "e", "f", " ", "f">>],
     [type |-> "method", name |-> <<"g">>,
      text |-> <<"d", "e", "f", " ", "g", "(", "a", ",", " ", "b", ")">>],
     [type |-> "class", name |-> <<"K">>,
      text |-> <<"c", "l", "a", "s", "s", " ", "K">>]}

\* What stands before the comment block: nothing, a blank line, a line of
\* code.
Preambles == {<< >>, <<"\n">>, <<"x", " ", "=", " ", "1", "\n">>}

CommentLineText(indent, l) == indent \o l.marker \o l.gap \o l.content \o <<"\n">>

\* The source text of a unit: the three comment lines, then the declaration
\* and its end.
UnitText(d) ==
    d.preamble
    \o CommentLineText(d.indent, d.block[1])
    \o CommentLineText(d.indent, d.block[2])
    \o CommentLineText(d.indent, d.block[3])
    \o d.indent \o d.declaration.text \o <<"\n">> \o d.indent
    \o <<"e", "n", "d">>

InitDocs ==
    /\ IdleHost
    /\ OthersIdle({"doc"})
    /\ doc \in [pc : {"ready"},
                preamble : Preambles,
                indent : {<< >>, <<" ", " ">>},
                block : [1..3 -> CommentLines],
                declaration : Declarations,
                sections : {<< >>}]

\* docs.sections = this.extractRubyDocs(code)
ExtractDocs ==
    /\ doc.pc = "ready"
    /\ doc' = [doc EXCEPT !.pc = "done",
                          !.sections = ExtractRubyDocs(UnitText(doc))]
    /\ UNCHANGED <<hostVars, scanVars, riskVars, quality, sim, orch, gen, pr>>

NextDocs == ExtractDocs

SpecDocs == InitDocs /\ [][NextDocs]_vars

\* The sections extracted for the declared unit.
UnitSections ==
    {k \in 1..Len(doc.sections) :
       /\ doc.sections[k].type = doc.declaration.type
       /\ doc.sections[k].name = doc.declaration.name}

\* C17: for a declaration right after a block of three comment lines, the
\* description extracted for it is the text of the three lines, in order,
\* without their markers and leading whitespace, joined by single spaces.
C17_DescriptionRoundTrip ==
    doc.pc = "done" =>
        /\ UnitSections # {}
        /\ \A k \in UnitSections :
             doc.sections[k].description =
                 doc.block[1].content \o <<" ">> \o doc.block[2].content
                 \o <<" ">> \o doc.block[3].content

(***************************************************************************)
(* Testing agent: the generate-test tool.                                  *)
(***************************************************************************)
\* ActiveRecord
sActiveRecord ==
    <<"A", "c", "t", "i", "v", "e", "R", "e", "c", "o", "r", "d">>

\* function
sFunction ==
    <<"f", "u", "n", "c", "t", "i", "o", "n">>

\* const
sConst ==
    <<"c", "o", "n", "s", "t">>

\* import React
sImportReact ==
    <<"i", "m", "p", "o", "r", "t", " ", "R", "e", "a", "c", "t">>

\* class User < ApplicationRecord\n  validates :email, presence: true\nend
tUserModel ==
    <<"c", "l", "a", "s", "s", " ", "U", "s", "e", "r", " ", "<", " ", "A",
      "p", "p", "l", "i", "c", "a", "t", "i", "o", "n", "R", "e", "c", "o",
      "r", "d", "\n", " ", " ", "v", "a", "l", "i", "d", "a", "t", "e", "s",
      " ", ":", "e", "m", "a", "i", "l", ",", " ", "p", "r", "e", "s", "e",
      "n", "c", "e", ":", " ", "t", "r", "u", "e", "\n", "e", "n", "d">>

\* class UsersController\nend
tUsersController ==
    <<"c", "l", "a", "s", "s", " ", "U", "s", "e", "r", "s", "C", "o", "n",
      "t", "r", "o", "l", "l", "e", "r", "\n", "e", "n", "d">>

\* class A\nend
tOneLetterClass ==
    <<"c", "l", "a", "s", "s", " ", "A", "\n", "e", "n", "d">>

\* class user\nend
tLowerClass ==
    <<"c", "l", "a", "s", "s", " ", "u", "s", "e", "r", "\n", "e", "n", "d">>

\* def x\nend
tPlainMethod ==
    <<"d", "e", "f", " ", "x", "\n", "e", "n", "d">>

\* const App = 1
tAppComponent ==
    <<"c", "o", "n", "s", "t", " ", "A", "p", "p", " ", "=", " ", "1">>

\* function f
tHelperFunction ==
    <<"f", "u", "n", "c", "t", "i", "o", "n", " ", "f">>

\* app/models/user.rb
pUserRb ==
    <<"a", "p", "p", "/", "m", "o", "d", "e", "l", "s", "/", "u", "s", "e",
      "r", ".", "r", "b">>

\* App.JS
pAppJs ==
    <<"A", "p", "p", ".", "J", "S">>

\* Makefile
pMakefile ==
    <<"M", "a", "k", "e", "f", "i", "l", "e">>

\* filename.split('.').pop().toLowerCase()
Extension(filename) ==
    [k \in 1..Len(SplitOn(filename, ".")[Len(SplitOn(filename, "."))]) |->
       Lower(SplitOn(filename, ".")[Len(SplitOn(filename, "."))][k])]

\* detectLanguage(filename): languageMap[ext] || 'unknown'
DetectLanguage(filename) ==
    CASE Extension(filename) = <<"r", "b">> -> "ruby"
      [] Extension(filename) \in {<<"j", "s">>, <<"j", "s", "x">>} -> "javascript"
      [] Extension(filename) \in {<<"t", "s">>, <<"t", "s", "x">>} -> "typescript"
      [] Extension(filename) \in {<<"g", "r", "a", "p", "h", "q", "l">>,
                                  <<"g", "q", "l">>} -> "graphql"
      [] OTHER -> "unknown"

\* A string argument that is not given, or a match that is null.
NoText == <<"undefined">>

\* filePath ? detectLanguage(filePath) : 'unknown'; an absent or empty
\* filePath is falsy.
LanguageOf(filePath) ==
    IF filePath = NoText \/ filePath = << >> THEN "unknown"
    ELSE DetectLanguage(filePath)

IsUpper(c) == \E k \in 1..26 : UpperCase[k] = c

\* keyword\s+([A-Z]\w+) matches at i: where the name starts, 0 if there is no
\* match at i.
CapitalNameStartAt(text, i, keyword) ==
    IF /\ NameStartAt(text, i, keyword) > 0
       /\ IsUpper(text[NameStartAt(text, i, keyword)])
       /\ NameEnd(text, NameStartAt(text, i, keyword))
            > NameStartAt(text, i, keyword)
    THEN NameStartAt(text, i, keyword)
    ELSE 0

\* Where the leftmost match of keyword\s+([A-Z]\w+) starts, 0 if there is
\* none.
FirstCapitalMatch(text, keyword) ==
    MinOrZero({i \in 1..Len(text) : CapitalNameStartAt(text, i, keyword) > 0})

\* The first group of the match of keyword\s+([A-Z]\w+) at i.
CapitalNameAt(text, i, keyword) ==
    SubSeq(text, CapitalNameStartAt(text, i, keyword),
           NameEnd(text, CapitalNameStartAt(text, i, keyword)))

\* extractClassName(code): classMatch ? classMatch[1] : null
ExtractClassName(text) ==
    IF FirstCapitalMatch(text, sClass) = 0 THEN NoText
    ELSE CapitalNameAt(text, FirstCapitalMatch(text, sClass), sClass)

\* extractComponentName(code): the leftmost match of
\* /(?:function|const)\s+([A-Z]\w+)/, 'Component' if there is none.
ExtractComponentName(text) ==
    CASE FirstCapitalMatch(text, sFunction) = 0
         /\ FirstCapitalMatch(text, sConst) = 0 -> <<"Component">>
      [] FirstCapitalMatch(text, sFunction) > 0
         /\ (\/ FirstCapitalMatch(text, sConst) = 0
             \/ FirstCapitalMatch(text, sFunction)
                  < FirstCapitalMatch(text, sConst)) ->
           CapitalNameAt(text, FirstCapitalMatch(text, sFunction), sFunction)
      [] OTHER -> CapitalNameAt(text, FirstCapitalMatch(text, sConst), sConst)

\* A generated test: which template, and the name put into it.
TestCode(template, name) == [template |-> template, name |-> name]

\* generateRSpecTest(code, language, testType): className.downcase() is a
\* call of undefined, strings having no downcase method.
GenerateRSpecTest(text, language, testType) ==
    IF ExtractClassName(text) # NoText
    THEN Throw("TypeError", "className.downcase is not a function")
    ELSE CASE language = "ruby" /\ Includes(text, sClass)
              /\ Includes(text, sActiveRecord) ->
                Return("string", TestCode("rails-model", NoText))
           [] Includes(text, sClass) /\ Includes(text, sController) ->
                Return("string", TestCode("rails-controller", NoText))
           [] OTHER -> Return("string", TestCode("generic", <<"TestClass">>))

\* generateJestTest(code, language, testType)
GenerateJestTest(text, language, testType) ==
    Return("string",
           TestCode(IF \/ Includes(text, sImportReact)
                       \/ Includes(text, sFunction)
                       \/ (Includes(text, sConst) /\ Includes(text, <<"=">>))
                    THEN "component" ELSE "function",
                    ExtractComponentName(text)))

\* getTestSuggestions(framework, testType):
\* suggestions[framework]?.[testType] || [], a list named by its keys.
GetTestSuggestions(fw, testType) ==
    IF <<fw, testType>> \in {<<"rspec", "unit">>, <<"rspec", "integration">>,
                             <<"jest", "unit">>, <<"jest", "component">>}
    THEN <<fw, testType>>
    ELSE << >>

\* const { testType = 'unit' } = args
TestTypeOf(testType) == IF testType = "undefined" THEN "unit" ELSE testType

\* The return of generateTest, or the failure of the test generator.
GeneratedTest(outcome, fw, testType, language) ==
    IF outcome.kind = "throw" THEN outcome
    ELSE Return("object",
                [testCode |-> outcome.v, framework |-> fw,
                 testType |-> testType, language |-> language,
                 suggestions |-> GetTestSuggestions(fw, testType)])

\* generateTest(args), for args.code a string
GenerateTest(args) ==
    CASE args.framework = "rspec" ->
           GeneratedTest(GenerateRSpecTest(args.code, LanguageOf(args.filePath),
                                           TestTypeOf(args.testType)),
                         args.framework, TestTypeOf(args.testType),
                         LanguageOf(args.filePath))
      [] args.framework = "jest" ->
           GeneratedTest(GenerateJestTest(args.code, LanguageOf(args.filePath),
                                          TestTypeOf(args.testType)),
                         args.framework, TestTypeOf(args.testType),
                         LanguageOf(args.filePath))
      [] OTHER -> Throw("Error", <<"Unsupported framework: ", args.framework>>)

\* The sources given to generate-test; the first is the example of the
\* tool's description.
TestSources ==
    {tUserModel, tUsersController, tOneLetterClass, tLowerClass, tPlainMethod,
     tAppComponent, tHelperFunction}

InitGenerate ==
    /\ IdleHost
    /\ OthersIdle({"gen"})
    /\ gen \in [pc : {"ready"},
                args : [code : TestSources,
                        framework : {"rspec", "jest", "mocha"},
                        filePath : {NoText, pUserRb, pAppJs, pMakefile},
                        testType : {"undefined", "unit", "integration", "component"}],
                response : {NoResponse}]

\* A call-tool request for generate-test: the handler is called and its
\* outcome wrapped by the call-tool handler.
CallGenerateTest ==
    /\ gen.pc = "ready"
    /\ gen' = [gen EXCEPT !.pc = "done",
                          !.response = WrapOutcome(GenerateTest(gen.args))]
    /\ UNCHANGED <<hostVars, scanVars, riskVars, quality, sim, orch, doc, pr>>

NextGenerate == CallGenerateTest

SpecGenerate == InitGenerate /\ [][NextGenerate]_vars

\* C18: generate-test with framework rspec on source that defines a
\* capitalised class answers without error, with an RSpec test that names
\* the class.
C18_RSpecTestNamesClass ==
    (/\ gen.pc = "done"
     /\ gen.args.framework = "rspec"
     /\ gen.args.code \in {tUserModel, tUsersController}) =>
        /\ gen.response.kind = "result"
        /\ ~gen.response.isError
        /\ gen.response.text[2].testCode.name
             = (IF gen.args.code = tUserModel THEN <<"U", "s", "e", "r">>
                ELSE <<"U", "s", "e", "r", "s">> \o sController)

(***************************************************************************)
(* Code review agent: the review-pr tool.                                  *)
(***************************************************************************)
\* app/models
sAppModels ==
    <<"a", "p", "p", "/", "m", "o", "d", "e", "l", "s">>

\* app/controllers
sAppControllers ==
    <<"a", "p", "p", "/", "c", "o", "n", "t", "r", "o", "l", "l", "e", "r",
      "s">>

\* .tsx
sTsx ==
    <<".", "t", "s", "x">>

\* .jsx
sJsx ==
    <<".", "j", "s", "x">>

\* .graphql
sDotGraphql ==
    <<".", "g", "r", "a", "p", "h", "q", "l">>

\* graphql
sGraphql ==
    <<"g", "r", "a", "p", "h", "q", "l">>

\* App.tsx
pAppTsx ==
    <<"A", "p", "p", ".", "t", "s", "x">>

\* schema.graphql
pSchemaGraphql ==
    <<"s", "c", "h", "e", "m", "a", ".", "g", "r", "a", "p", "h", "q", "l">>

\* detectFramework(filePath)
DetectFramework(filePath) ==
    CASE Includes(filePath, sAppModels) \/ Includes(filePath, sAppControllers) ->
           "rails"
      [] Includes(filePath, sTsx) \/ Includes(filePath, sJsx) -> "react-native"
      [] Includes(filePath, sDotGraphql) \/ Includes(filePath, sGraphql) ->
           "graphql"
      [] OTHER -> "rails"

\* The switch of calculateScore: what an issue takes from the score.
IssuePenalty(severity) ==
    CASE severity = "critical" -> 20
      [] severity = "high" -> 10
      [] severity = "medium" -> 5
      [] severity = "low" -> 2
      [] severity = "info" -> 1
      [] OTHER -> 0

\* The forEach of calculateScore.
RECURSIVE SumIssuePenalties(_)
SumIssuePenalties(issues) ==
    IF issues = << >> THEN 0
    ELSE IssuePenalty(Head(issues).severity) + SumIssuePenalties(Tail(issues))

\* calculateScore(issues)
CalculateScore(issues) == MaxZero(100 - SumIssuePenalties(issues))

CountWhere(issues, field, value) ==
    Cardinality({k \in 1..Len(issues) : issues[k][field] = value})

\* generateSuggestions(issues, framework): the priorities of the suggestions
GenerateSuggestions(issues, fw) ==
    (IF CountWhere(issues, "severity", "critical") > 0 THEN <<"high">> ELSE << >>)
    \o (IF CountWhere(issues, "type", "style") > 5 THEN <<"medium">> ELSE << >>)
    \o (IF fw = "rails" THEN <<"low">> ELSE << >>)

\* A JavaScript number: an integer, or NaN.
Number(v) == [isNaN |-> FALSE, v |-> v]
NaN == [isNaN |-> TRUE, v |-> 0]

\* Math.round(sum / count): 0 / 0 is NaN, and so is its rounding.
RoundedMean(sum, count) ==
    IF count = 0 THEN NaN ELSE Number(Round(sum, count))

\* What reviewCode returns for a file, given the issues its checks push.
ReviewCode(file) ==
    [path |-> file.path,
     framework |-> DetectFramework(file.path),
     issues |-> file.found,
     suggestions |-> GenerateSuggestions(file.found, DetectFramework(file.path)),
     score |-> CalculateScore(file.found)]

\* review.files.reduce((sum, f) => sum + f.score, 0)
RECURSIVE SumFileScores(_)
SumFileScores(reviews) ==
    IF reviews = << >> THEN 0
    ELSE Head(reviews).score + SumFileScores(Tail(reviews))

\* The review object reviewPullRequest starts from.
EmptyReview(files) ==
    [files |-> << >>,
     overallScore |-> Number(100),
     summary |-> [totalFiles |-> Len(files), issues |-> 0, suggestions |-> 0]]

\* One turn of the for loop of reviewPullRequest.
AddFileReview(review, fileReview) ==
    [review EXCEPT
       !.files = Append(@, fileReview),
       !.summary.issues = @ + Len(fileReview.issues),
       !.summary.suggestions = @ + Len(fileReview.suggestions)]

\* review.overallScore = Math.round(... / review.files.length)
WithOverallScore(review) ==
    [review EXCEPT
       !.overallScore = RoundedMean(SumFileScores(review.files),
                                    Len(review.files))]

ReviewIssue(type, severity) == [type |-> type, severity |-> severity]

RECURSIVE FoundLists(_)
FoundLists(n) ==
    IF n = 0 THEN {<< >>}
    ELSE FoundLists(n - 1)
         \cup {l \o <<ReviewIssue("security", s)>> :
                 l \in FoundLists(n - 1), s \in {"critical", "medium", "info"}}

\* The issues reviewCode finds in a file: up to MaxFound security issues, six
\* style issues, or six critical ones.
FoundChoices ==
    FoundLists(MaxFound)
    \cup {Repeat(ReviewIssue("style", "low"), 6),
          Repeat(ReviewIssue("security", "critical"), 6)}

FileChoices ==
    [path : {pUserRb, pAppTsx, pSchemaGraphql, pMakefile}, found : FoundChoices]

RECURSIVE FileLists(_)
FileLists(n) ==
    IF n = 0 THEN {<< >>}
    ELSE FileLists(n - 1)
         \cup {l \o <<f>> : l \in FileLists(n - 1), f \in FileChoices}

InitReviewPR ==
    /\ IdleHost
    /\ OthersIdle({"pr"})
    /\ pr \in {[pc |-> "loop", files |-> files, review |-> EmptyReview(files),
                response |-> NoResponse] : files \in FileLists(MaxFiles)}

\* for (const file of files) { const fileReview = await this.reviewCode(...)
ReviewNextFile ==
    /\ pr.pc = "loop"
    /\ Len(pr.review.files) < Len(pr.files)
    /\ pr' = [pr EXCEPT
                !.review = AddFileReview(
                             @, ReviewCode(pr.files[Len(pr.review.files) + 1]))]
    /\ UNCHANGED <<hostVars, scanVars, riskVars, quality, sim, orch, doc, gen>>

\* After the loop: the overall score, the return, and the call-tool handler's
\* wrapping of it.
FinishReview ==
    /\ pr.pc = "loop"
    /\ Len(pr.review.files) = Len(pr.files)
    /\ pr' = [pr EXCEPT
                !.pc = "done",
                !.review = WithOverallScore(@),
                !.response = WrapOutcome(Return("object",
                                                WithOverallScore(pr.review)))]
    /\ UNCHANGED <<hostVars, scanVars, riskVars, quality, sim, orch, doc, gen>>

NextReviewPR == ReviewNextFile \/ FinishReview

SpecReviewPR == InitReviewPR /\ [][NextReviewPR]_vars

RECURSIVE TotalOver(_, _)
TotalOver(reviews, field) ==
    IF reviews = << >> THEN 0
    ELSE Len(Head(reviews)[field]) + TotalOver(Tail(reviews), field)

RECURSIVE TotalFileScore(_)
TotalFileScore(k) ==
    IF k = 0 THEN 0 ELSE pr.review.files[k].score + TotalFileScore(k - 1)

\* C19: for every files array, the empty one included, overallScore is an
\* integer from 0 to 100, the rounded mean of the per-file scores, and
\* summary.totalFiles, summary.issues and summary.suggestions are the number
\* of files and the sums of the per-file issue and suggestion counts.
C19_ReviewPRTotals ==
    pr.pc = "done" =>
        /\ ~pr.review.overallScore.isNaN
        /\ pr.review.overallScore.v \in 0..100
        /\ LET n == Len(pr.files)
               r == pr.review.overallScore.v
           IN  n > 0 => /\ 2 * n * r - n <= 2 * TotalFileScore(n)
                        /\ 2 * TotalFileScore(n) < 2 * n * r + n
        /\ pr.review.summary.totalFiles = Len(pr.files)
        /\ pr.review.summary.issues = TotalOver(pr.review.files, "issues")
        /\ pr.review.summary.suggestions
             = TotalOver(pr.review.files, "suggestions")

(***************************************************************************)
(* Security agent: checkAuthentication and detectXSS.                      *)
(***************************************************************************)
MaxAuthFragments == 3

\* The texts checked for authentication: up to MaxAuthFragments of these
\* pieces, one after another.
AuthFragments ==
    { sClass, sController, tControllerClass, sBeforeAction, sAuthenticate,
      tAuthGate, sFetch, sBearer, <<"\n">> }

RECURSIVE AuthTexts(_)
AuthTexts(n) ==
    IF n = 0 THEN {<< >>}
    ELSE AuthTexts(n - 1)
         \cup {t \o f : t \in AuthTexts(n - 1), f \in AuthFragments}

InitAuth ==
    /\ tools = << >>
    /\ listSet = FALSE
    /\ initialized = TRUE
    /\ reqs = << >>
    /\ calls = << >>
    /\ lastList = [kind |-> "none", at |-> 0, tools |-> << >>]
    /\ sigints = << >>
    /\ closed = 0
    /\ exited = FALSE
    /\ exitCode = -1
    /\ code \in AuthTexts(MaxAuthFragments)
    /\ framework \in {"rails", "react-native", "django"}
    /\ scanResp = [t \in ScannerTools |-> NoResponse]
    /\ xss = Idle
    /\ vulns = << >>
    /\ riskScore = -1
    /\ riskPlus = -1
    /\ AgentsIdle

\* A check-authentication request with {code, framework}.
CheckAuthenticationCall == CallScanner("check-authentication")

NextAuth == CheckAuthenticationCall

SpecAuth == InitAuth /\ [][NextAuth]_vars

\* The issues of the answer to a check-authentication request.
AuthIssues == scanResp["check-authentication"].text[2].findings

RailsAuthChecked ==
    /\ framework = "rails"
    /\ ScanDone("check-authentication")
    /\ ~scanResp["check-authentication"].isError

ControllerLike == Includes(code, sClass) /\ Includes(code, sController)

MissingAuthentication == Finding("missing-authentication", "high", << >>)

\* C21: for rails, check-authentication reports one missing-authentication
\* issue for controller-like code that lacks before_action or lacks
\* authenticate, and no issue for any other code: controller code is secure
\* only when it contains both.
C21_RailsAuthNeedsBoth ==
    (framework = "rails" /\ ScanDone("check-authentication")) =>
        /\ ~scanResp["check-authentication"].isError
        /\ AuthIssues =
             (IF /\ ControllerLike
                 /\ ~(Includes(code, sBeforeAction) /\ Includes(code, sAuthenticate))
              THEN <<MissingAuthentication>>
              ELSE << >>)

\* A controller with a before_action and no authenticate is reported.
C21_Witness ==
    /\ RailsAuthChecked
    /\ code = tControllerClass \o sBeforeAction
    /\ AuthIssues = <<MissingAuthentication>>

\* C21 as stated: an issue is reported only when both are lacking, so
\* controller code containing either one is reported secure.
C21_RailsAuthAsStated ==
    (/\ RailsAuthChecked
     /\ ControllerLike
     /\ (Includes(code, sBeforeAction) \/ Includes(code, sAuthenticate))) =>
        AuthIssues = << >>

(***************************************************************************)
(* The XSS step of scanVulnerabilities, applied to a text.                 *)
(***************************************************************************)
MaxXssFragments == 3

XssFragments ==
    { sHtmlSafe, sRawCall, sInnerHTML, sSanitize, <<"x">>, <<"\n">> }

RECURSIVE XssTexts(_)
XssTexts(n) ==
    IF n = 0 THEN {<< >>}
    ELSE XssTexts(n - 1)
         \cup {t \o f : t \in XssTexts(n - 1), f \in XssFragments}

InitXSS ==
    /\ tools = << >>
    /\ listSet = FALSE
    /\ initialized = TRUE
    /\ reqs = << >>
    /\ calls = << >>
    /\ lastList = [kind |-> "none", at |-> 0, tools |-> << >>]
    /\ sigints = << >>
    /\ closed = 0
    /\ exited = FALSE
    /\ exitCode = -1
    /\ code \in XssTexts(MaxXssFragments)
    /\ framework = "rails"
    /\ scanResp = << >>
    /\ xss = [pc |-> "ready"]
    /\ vulns = << >>
    /\ riskScore = -1
    /\ riskPlus = -1
    /\ AgentsIdle

\* if (this.detectXSS(code)) vulnerabilities.push({type: 'xss', ...})
PushXSS ==
    /\ xss.pc = "ready"
    /\ xss' = [pc |-> "done",
               pushed |-> PushIf(DetectXSS(code), Finding("xss", "high", << >>))]
    /\ UNCHANGED <<hostVars, code, framework, scanResp, riskVars, agentVars>>

NextXSS == PushXSS

SpecXSS == InitXSS /\ [][NextXSS]_vars

XssFinding == Finding("xss", "high", << >>)

\* C22: the XSS step pushes one xss finding of severity high for a text that
\* contains .html_safe or raw(, whether or not it contains sanitize, and for
\* a text that contains innerHTML and no sanitize; for every other text it
\* pushes nothing.  A sanitize in the text silences innerHTML only.
C22_XssSanitizeSilencesInnerHTMLOnly ==
    xss.pc = "done" =>
        xss.pushed =
          (IF \/ Includes(code, sHtmlSafe)
              \/ Includes(code, sRawCall)
              \/ (Includes(code, sInnerHTML) /\ ~Includes(code, sSanitize))
           THEN <<XssFinding>>
           ELSE << >>)

\* A text with .html_safe and sanitize is flagged.
C22_Witness ==
    /\ xss.pc = "done"
    /\ code = sSanitize \o sHtmlSafe
    /\ xss.pushed = <<XssFinding>>

\* C22 as stated: a text that contains sanitize gets no XSS finding,
\* whichever idiom it contains.
C22_XssAsStated ==
    (xss.pc = "done" /\ Includes(code, sSanitize)) => xss.pushed = << >>

(***************************************************************************)
(* Clean code agent: calculateMetrics, checkSOLID, findMagicNumbers and    *)
(* detectCodeSmells.                                                       *)
(***************************************************************************)
\* if
sIf ==
    <<"i", "f">>

\* else
sElse ==
    <<"e", "l", "s", "e">>

\* for
sFor ==
    <<"f", "o", "r">>

\* while
sWhile ==
    <<"w", "h", "i", "l", "e">>

\* case
sCase ==
    <<"c", "a", "s", "e">>

\* switch
sSwitch ==
    <<"s", "w", "i", "t", "c", "h">>

\* try
sTry ==
    <<"t", "r", "y">>

\* catch
sCatch ==
    <<"c", "a", "t", "c", "h">>

\* &&
sAndAnd ==
    <<"&", "&">>

\* ||
sOrOr ==
    <<"|", "|">>

\* new
sNew ==
    <<"n", "e", "w">>

\* interface
sInterface ==
    <<"i", "n", "t", "e", "r", "f", "a", "c", "e">>

\* abstract
sAbstract ==
    <<"a", "b", "s", "t", "r", "a", "c", "t">>

\* new Foo(
tNewCall ==
    <<"n", "e", "w", " ", "F", "o", "o", "(">>

\*  if if if if if if if if if if 
tTenIfs ==
    <<" ", "i", "f", " ", "i", "f", " ", "i", "f", " ", "i", "f", " ", "i",
      "f", " ", "i", "f", " ", "i", "f", " ", "i", "f", " ", "i", "f", " ",
      "i", "f", " ">>

\*  if if if if if if if if if 
tNineIfs ==
    <<" ", "i", "f", " ", "i", "f", " ", "i", "f", " ", "i", "f", " ", "i",
      "f", " ", "i", "f", " ", "i", "f", " ", "i", "f", " ", "i", "f", " ">>

\* Whether text has a \w character at index i; no character outside the text.
WordAt(text, i) == i >= 1 /\ i <= Len(text) /\ IsWord(text[i])

\* \b between text[i - 1] and text[i]
WordBoundary(text, i) == WordAt(text, i - 1) # WordAt(text, i)

\* code.match(/\bkeyword\b/g): the indexes where the matches start
KeywordMatches(text, keyword) ==
    {i \in 1..Len(text) :
        /\ StartsWithAt(text, i, keyword)
        /\ WordBoundary(text, i)
        /\ WordBoundary(text, i + Len(keyword))}

controlKeywords ==
    <<sIf, sElse, sFor, sWhile, sCase, sSwitch, sTry, sCatch, sAndAnd, sOrOr>>

\* controlKeywords.forEach(regex => { score += matches.length })
RECURSIVE CountControl(_, _)
CountControl(text, k) ==
    IF k > Len(controlKeywords) THEN 0
    ELSE Cardinality(KeywordMatches(text, controlKeywords[k]))
         + CountControl(text, k + 1)

\* estimateComplexity(code)
EstimateComplexity(text) == 1 + CountControl(text, 1)

\* code.match(/new\s+\w+\(/)
NewCall(text) ==
    \E i \in 1..Len(text) :
        /\ StartsWithAt(text, i, sNew)
        /\ \E j \in (i + 4)..Len(text) :
             /\ AllSpace(text, i + 3, j - 1)
             /\ IsWord(text[j])
             /\ \E k \in (j + 1)..Len(text) :
                  /\ \A m \in j..(k - 1) : IsWord(text[m])
                  /\ text[k] = "("

\* What a check of one principle returns: {adhered: issues.length === 0, issues}
Principle(issues) == [adhered |-> issues = << >>, issues |-> issues]

\* checkSingleResponsibility(code)
CheckSingleResponsibility(text) ==
    Principle(PushIf(/\ Includes(text, sClass) \/ Includes(text, sFunction)
                     /\ EstimateComplexity(text) > 10,
                     "Class/function may have multiple responsibilities"))

\* checkOpenClosed, checkLiskovSubstitution, checkInterfaceSegregation
CheckUnconditional == Principle(<< >>)

CheckDependencyInversionAlways(text) == Principle(<< >>)

\* checkDependencyInversion(code)
CheckDependencyInversion(text) ==
    Principle(PushIf(/\ NewCall(text)
                     /\ ~Includes(text, sInterface)
                     /\ ~Includes(text, sAbstract),
                     "Consider using dependency injection instead of direct instantiation"))

PrincipleNames ==
    <<"singleResponsibility", "openClosed", "liskovSubstitution",
      "interfaceSegregation", "dependencyInversion">>

\* calculateSOLIDScore(principles): 20 for each principle adhered to, in the
\* order of Object.values.
RECURSIVE SOLIDScoreFrom(_, _)
SOLIDScoreFrom(principles, k) ==
    IF k > Len(PrincipleNames) THEN 0
    ELSE (IF principles[PrincipleNames[k]].adhered THEN 20 ELSE 0)
         + SOLIDScoreFrom(principles, k + 1)

CalculateSOLIDScore(principles) == SOLIDScoreFrom(principles, 1)

SOLIDPrinciples(text) ==
    [singleResponsibility |-> CheckSingleResponsibility(text),
     openClosed |-> CheckUnconditional,
     liskovSubstitution |-> CheckUnconditional,
     interfaceSegregation |-> CheckUnconditional,
     dependencyInversion |-> CheckDependencyInversion(text)]

\* checkSOLID(args), for args.code a string
CheckSOLID(text) ==
    [principles |-> SOLIDPrinciples(text),
     score |-> CalculateSOLIDScore(SOLIDPrinciples(text))]

MaxSolidFragments == 3

\* The texts checked: up to MaxSolidFragments of these pieces, one after
\* another.
SolidFragments ==
    { sClass, sFunction, tTenIfs, tNineIfs, tNewCall, sInterface, sAbstract,
      <<" ">> }

RECURSIVE SolidTexts(_)
SolidTexts(n) ==
    IF n = 0 THEN {<< >>}
    ELSE SolidTexts(n - 1)
         \cup {t \o f : t \in SolidTexts(n - 1), f \in SolidFragments}

InitSOLID ==
    /\ IdleHost
    /\ OthersIdle({"quality"})
    /\ quality \in {[pc |-> "ready", code |-> t] :
                      t \in SolidTexts(MaxSolidFragments)}

\* A check-solid-principles request with {code}.
CheckSOLIDCall ==
    /\ quality.pc = "ready"
    /\ quality' = [pc |-> "done", code |-> quality.code,
                   result |-> CheckSOLID(quality.code)]
    /\ UNCHANGED <<hostVars, scanVars, riskVars, sim, orch, doc, gen, pr>>

NextSOLID == CheckSOLIDCall

SpecSOLID == InitSOLID /\ [][NextSOLID]_vars

Adhered(name) == quality.result.principles[name].adhered

AdheredCount ==
    Cardinality({k \in 1..Len(PrincipleNames) : Adhered(PrincipleNames[k])})

DirectInstantiation ==
    /\ NewCall(quality.code)
    /\ ~Includes(quality.code, sInterface)
    /\ ~Includes(quality.code, sAbstract)

\* C23: check-solid-principles reports open-closed, Liskov-substitution and
\* interface-segregation adhered for every code; dependency-inversion is
\* adhered unless the code has a new X( call and neither 'interface' nor
\* 'abstract'; the score is 20 times the number of adhered principles, so
\* 60, 80 or 100.
C23_SolidScore ==
    quality.pc = "done" =>
        /\ Adhered("openClosed")
        /\ Adhered("liskovSubstitution")
        /\ Adhered("interfaceSegregation")
        /\ Adhered("dependencyInversion") = ~DirectInstantiation
        /\ quality.result.score = 20 * AdheredCount
        /\ quality.result.score \in {60, 80, 100}

\* A class of complexity 11 that instantiates directly scores 60.
C23_Witness ==
    /\ quality.pc = "done"
    /\ quality.code = sClass \o tTenIfs \o tNewCall
    /\ ~Adhered("singleResponsibility")
    /\ ~Adhered("dependencyInversion")
    /\ quality.result.score = 60

\* C23 as stated: only single-responsibility depends on the code, so
\* dependency-inversion is adhered for every code and the score is 80 or 100.
C23_SolidAsStated ==
    quality.pc = "done" =>
        /\ Adhered("openClosed")
        /\ Adhered("liskovSubstitution")
        /\ Adhered("interfaceSegregation")
        /\ Adhered("dependencyInversion")
        /\ quality.result.score = 20 * AdheredCount
        /\ quality.result.score \in {80, 100}

(***************************************************************************)
(* Clean code agent: findMagicNumbers.                                     *)
(***************************************************************************)
DigitChars == <<"0", "1", "2", "3", "4", "5", "6", "7", "8", "9">>

DigitValue(c) == (CHOOSE k \in 1..10 : DigitChars[k] = c) - 1

\* parseInt(digits) for a run of digits; the values from 1000 on all stand as
\* 1000, none of them passing num < 1000.
RECURSIVE ParseInt(_)
ParseInt(digits) ==
    IF digits = << >> THEN 0
    ELSE IF 10 * ParseInt(SubSeq(digits, 1, Len(digits) - 1))
            + DigitValue(digits[Len(digits)]) > 1000
         THEN 1000
         ELSE 10 * ParseInt(SubSeq(digits, 1, Len(digits) - 1))
              + DigitValue(digits[Len(digits)])

\* [\w.] at index i of text; no character outside the text.
WordOrDotAt(text, i) ==
    i >= 1 /\ i <= Len(text) /\ (IsWord(text[i]) \/ text[i] = ".")

DigitAt(text, i) == i >= 1 /\ i <= Len(text) /\ text[i] \in Digits

\* The index of the last digit of the run of digits that text[i] is in.
RunEnd(text, i) ==
    MaxOf({e \in i..Len(text) : \A m \in i..e : text[m] \in Digits})

MagicMatchAtAnyLength(text, i) ==
    /\ DigitAt(text, i)
    /\ ~WordOrDotAt(text, i - 1)
    /\ ~WordOrDotAt(text, RunEnd(text, i) + 1)

\* /(?<![\w.])\d{2,}(?![\w.])/ matches at index i: \d{2,} takes the whole
\* run of digits, any shorter match ending before a digit, which is a \w.
MagicMatchAt(text, i) ==
    /\ DigitAt(text, i)
    /\ ~WordOrDotAt(text, i - 1)
    /\ RunEnd(text, i) >= i + 1
    /\ ~WordOrDotAt(text, RunEnd(text, i) + 1)

\* if (num > 1 && num < 1000) numbers.push({value: num, position: match.index})
MagicNumber(text, i) ==
    PushIf(/\ ParseInt(SubSeq(text, i, RunEnd(text, i))) > 1
           /\ ParseInt(SubSeq(text, i, RunEnd(text, i))) < 1000,
           [value |-> ParseInt(SubSeq(text, i, RunEnd(text, i))),
            position |-> i - 1])

\* Where the leftmost match from index from on starts, 0 if there is none.
NextMagicMatch(text, from) ==
    MinOrZero({i \in from..Len(text) : MagicMatchAt(text, i)})

\* for (const match of code.matchAll(magicNumberPattern)), the search going
\* on from where the last match ended.
RECURSIVE MagicNumbersFrom(_, _)
MagicNumbersFrom(text, from) ==
    IF NextMagicMatch(text, from) = 0 THEN << >>
    ELSE MagicNumber(text, NextMagicMatch(text, from))
         \o MagicNumbersFrom(text,
                             RunEnd(text, NextMagicMatch(text, from)) + 1)

\* list.slice(0, n)
SliceTo(list, n) == SubSeq(list, 1, IF Len(list) < n THEN Len(list) ELSE n)

\* findMagicNumbers(code)
FindMagicNumbers(text) == SliceTo(MagicNumbersFrom(text, 1), 10)

\* x = 5
tAssignFive ==
    <<"x", " ", "=", " ", "5">>

\* 42
tFortyTwo ==
    <<"4", "2">>

\* 1000
tThousand ==
    <<"1", "0", "0", "0">>

\* 02
tZeroTwo ==
    <<"0", "2">>

\* 10 11 12 13 14 15 16 17 18 19 
tTenNumbers ==
    <<"1", "0", " ", "1", "1", " ", "1", "2", " ", "1", "3", " ", "1", "4",
      " ", "1", "5", " ", "1", "6", " ", "1", "7", " ", "1", "8", " ", "1",
      "9", " ">>

\* v1.25
tVersion ==
    <<"v", "1", ".", "2", "5">>

MaxMagicFragments == 3

\* The texts searched: up to MaxMagicFragments of these pieces, one after
\* another.
MagicFragments ==
    { tAssignFive, tFortyTwo, tThousand, tZeroTwo, tTenNumbers, tVersion,
      <<"9">>, <<"1">>, <<" ">>, <<".">>, <<"a">> }

RECURSIVE MagicTexts(_)
MagicTexts(n) ==
    IF n = 0 THEN {<< >>}
    ELSE MagicTexts(n - 1)
         \cup {t \o f : t \in MagicTexts(n - 1), f \in MagicFragments}

InitMagic ==
    /\ IdleHost
    /\ OthersIdle({"quality"})
    /\ quality \in {[pc |-> "ready", code |-> t] :
                      t \in MagicTexts(MaxMagicFragments)}

\* const magicNumbers = this.findMagicNumbers(code)
FindMagic ==
    /\ quality.pc = "ready"
    /\ quality' = [pc |-> "done", code |-> quality.code,
                   numbers |-> FindMagicNumbers(quality.code)]
    /\ UNCHANGED <<hostVars, scanVars, riskVars, sim, orch, doc, gen, pr>>

NextMagic == FindMagic

SpecMagic == InitMagic /\ [][NextMagic]_vars

\* The indexes where a bare integer literal starts: a whole run of digits
\* with no word character or dot on either side.
BareLiterals(text) ==
    {i \in 1..Len(text) :
        /\ DigitAt(text, i)
        /\ ~WordOrDotAt(text, i - 1)
        /\ ~WordOrDotAt(text, RunEnd(text, i) + 1)}

LiteralValue(text, i) == ParseInt(SubSeq(text, i, RunEnd(text, i)))

InRange(text, S) == {i \in S : LiteralValue(text, i) \in 2..999}

\* numbers is the first ten literals of S in text order, each with its value
\* and its offset.
ReportsFirstTen(S) ==
    /\ Len(quality.numbers)
         = (IF Cardinality(S) < 10 THEN Cardinality(S) ELSE 10)
    /\ \A k \in 1..Len(quality.numbers) :
         /\ quality.numbers[k].position + 1 \in S
         /\ Cardinality({i \in S : i <= quality.numbers[k].position + 1}) = k
         /\ quality.numbers[k].value
              = LiteralValue(quality.code, quality.numbers[k].position + 1)

\* C24: findMagicNumbers returns the first ten bare integer literals of two
\* digits or more whose value lies in 2..999, in text order, each with its
\* value and its offset, and nothing else; a literal of one digit is never
\* returned.
C24_MagicNumbersOfTwoDigits ==
    (quality.pc = "done") =>
        ReportsFirstTen(
          InRange(quality.code,
                  {i \in BareLiterals(quality.code) :
                     RunEnd(quality.code, i) > i}))

\* In x = 5 42 the literal 42 is returned and the literal 5 is not.
C24_Witness ==
    /\ quality.pc = "done"
    /\ quality.code = tAssignFive \o <<" ">> \o tFortyTwo
    /\ quality.numbers = <<[value |-> 42, position |-> 6]>>

\* C24 as stated: the literals returned are those of value 2..999, the
\* single digits 2 to 9 among them.
C24_MagicNumbersAsStated ==
    (quality.pc = "done") =>
        ReportsFirstTen(InRange(quality.code, BareLiterals(quality.code)))

(***************************************************************************)
(* Documentation agent: the window of extractComments.                     *)
(***************************************************************************)
MaxLinesAbove == 6

\* A line above a declaration: a comment with either marker, a blank line, a
\* line of code.
LinesAbove == {<<"#", " ", "a">>, <<"/", "/", "b">>, << >>, <<"x">>}

BlocksAbove == UNION {[1..n -> LinesAbove] : n \in 0..MaxLinesAbove}

RECURSIVE BlockText(_, _)
BlockText(indent, lines) ==
    IF lines = << >> THEN << >>
    ELSE indent \o Head(lines) \o <<"\n">> \o BlockText(indent, Tail(lines))

\* The source text of a unit: the lines above, then the declaration.
CommentedText(d) ==
    BlockText(d.indent, d.above) \o d.indent \o d.declaration.text

InitComments ==
    /\ IdleHost
    /\ OthersIdle({"doc"})
    /\ doc \in [pc : {"ready"},
                above : BlocksAbove,
                indent : {<< >>, <<" ", " ">>},
                declaration : {d \in Declarations : d.name # <<"g">>},
                sections : {<< >>}]

\* docs.sections = this.extractRubyDocs(code)
ExtractCommented ==
    /\ doc.pc = "ready"
    /\ doc' = [doc EXCEPT !.pc = "done",
                          !.sections = ExtractRubyDocs(CommentedText(doc))]
    /\ UNCHANGED <<hostVars, scanVars, riskVars, quality, sim, orch, gen, pr>>

NextComments == ExtractCommented

SpecComments == InitComments /\ [][NextComments]_vars

AboveIsComment(line) == line # << >> /\ line[1] \in {"#", "/"}

\* The comment lines found going up from line i of the lines above, no
\* higher than line lowest: blank lines passed over, a line of code ending
\* the search.
RECURSIVE CommentsAbove(_, _, _)
CommentsAbove(lines, i, lowest) ==
    IF i < 1 \/ i < lowest THEN << >>
    ELSE IF AboveIsComment(lines[i])
    THEN Append(CommentsAbove(lines, i - 1, lowest), <<lines[i][Len(lines[i])]>>)
    ELSE IF lines[i] = << >> THEN CommentsAbove(lines, i - 1, lowest)
    ELSE << >>

\* C25: the description of a declaration is made of the comment lines among
\* the five lines right above the declaration's line, going up, blank lines
\* passed over, down to the first line that is neither blank nor a comment;
\* five comment lines right above a declaration are all in it.
C25_FiveLinesAbove ==
    doc.pc = "done" =>
        /\ UnitSections # {}
        /\ \A k \in UnitSections :
             doc.sections[k].description =
                 Join(CommentsAbove(doc.above, Len(doc.above), Len(doc.above) - 4),
                      <<" ">>)

(***************************************************************************)
(* Documentation agent: updateInlineDocs.                                  *)
(***************************************************************************)
\* # 
sHashSpace ==
    <<"#", " ">>

\* : Description\n
sDescription ==
    <<":", " ", "D", "e", "s", "c", "r", "i", "p", "t", "i", "o", "n", "\n">>

\* /**\n * 
sJSDocOpen ==
    <<"/", "*", "*", "\n", " ", "*", " ">>

\* \n * @description Description\n */\n
sJSDocClose ==
    <<"\n", " ", "*", " ", "@", "d", "e", "s", "c", "r", "i", "p", "t", "i",
      "o", "n", " ", "D", "e", "s", "c", "r", "i", "p", "t", "i", "o", "n",
      "\n", " ", "*", "/", "\n">>

\* # undef x\n
tUndefComment ==
    <<"#", " ", "u", "n", "d", "e", "f", " ", "x", "\n">>

\* def undef\n
tUndefMethod ==
    <<"d", "e", "f", " ", "u", "n", "d", "e", "f", "\n">>

\* def f\n
tMethodF ==
    <<"d", "e", "f", " ", "f", "\n">>

\* # f\n
tCommentF ==
    <<"#", " ", "f", "\n">>

\*   def go(a)\n
tIndentedMethod ==
    <<" ", " ", "d", "e", "f", " ", "g", "o", "(", "a", ")", "\n">>

\* const k = 1\n
tConstK ==
    <<"c", "o", "n", "s", "t", " ", "k", " ", "=", " ", "1", "\n">>

\* /**\n * k\n */\n
tJSDocK ==
    <<"/", "*", "*", "\n", " ", "*", " ", "k", "\n", " ", "*", "/", "\n">>

\* function h() {}\n
tFunctionH ==
    <<"f", "u", "n", "c", "t", "i", "o", "n", " ", "h", "(", ")", " ", "{",
      "}", "\n">>

\* const h=()=>1\n
tArrowH ==
    <<"c", "o", "n", "s", "t", " ", "h", "=", "(", ")", "=", ">", "1", "\n">>

\* The keyword that a declaration of the family starts with at index i of
\* text: def for ruby, function or const for js, const for const; << >> if
\* there is none.
DeclKeywordAt(text, i, family) ==
    IF family = "ruby"
    THEN (IF StartsWithAt(text, i, sDef) THEN sDef ELSE << >>)
    ELSE IF family = "js" /\ StartsWithAt(text, i, sFunction) THEN sFunction
    ELSE IF StartsWithAt(text, i, sConst) THEN sConst
    ELSE << >>

\* Where the name of the declaration tried at i starts, 0 if keyword\s+(\w+)
\* does not match there.
DeclNameStart(text, i, family) ==
    IF DeclKeywordAt(text, i, family) = << >> THEN 0
    ELSE NameStartAt(text, i, DeclKeywordAt(text, i, family))

\* The first index after e that holds no whitespace (Len(text) + 1 if none).
AfterSpaces(text, e) ==
    MinOrZero({q \in (e + 1)..(Len(text) + 1) :
                 /\ AllSpace(text, e + 1, q - 1)
                 /\ (q > Len(text) \/ ~IsSpace(text[q]))})

\* Where the match at i of /(def\s+(\w+))/ (ruby), of
\* /((?:function|const)\s+(\w+)\s*=)/ (js) or of /const\s+(\w+)\s*=/ (const)
\* ends, 0 if there is no match at i.
DeclEnd(text, i, family) ==
    IF DeclNameStart(text, i, family) = 0 THEN 0
    ELSE IF family = "ruby" THEN NameEnd(text, DeclNameStart(text, i, family))
    ELSE IF /\ AfterSpaces(text, NameEnd(text, DeclNameStart(text, i, family)))
                 <= Len(text)
            /\ text[AfterSpaces(text, NameEnd(text, DeclNameStart(text, i, family)))]
                 = "="
    THEN AfterSpaces(text, NameEnd(text, DeclNameStart(text, i, family)))
    ELSE 0

\* Where the leftmost match from index from on starts, 0 if there is none.
NextDecl(text, from, family) ==
    MinOrZero({i \in from..Len(text) : DeclEnd(text, i, family) > 0})

\* The second group of the match at i: the name declared.
DeclName(text, i, family) ==
    SubSeq(text, DeclNameStart(text, i, family),
           NameEnd(text, DeclNameStart(text, i, family)))

\* What the callbacks look for in code: `# ${methodName}` and
\* `/**\n * ${funcName}`.
DocMarker(name, family) ==
    IF family = "ruby" THEN sHashSpace \o name ELSE sJSDocOpen \o name

\* What the callbacks put before the declaration.
DocStub(name, family) ==
    IF family = "ruby" THEN sHashSpace \o name \o sDescription
    ELSE sJSDocOpen \o name \o sJSDocClose

\* The callback of replace for the match at i: the stub and the
\* declaration, or the match as it is when code includes the marker.
Documented(text, i, family) ==
    (IF Includes(text, DocMarker(DeclName(text, i, family), family))
     THEN << >>
     ELSE DocStub(DeclName(text, i, family), family))
    \o SubSeq(text, i, DeclEnd(text, i, family))

\* code.replace(pattern, callback) from index from on: the text between the
\* matches is kept, each match is replaced by what the callback returns.
RECURSIVE ReplaceDecls(_, _, _)
ReplaceDecls(text, from, family) ==
    IF NextDecl(text, from, family) = 0 THEN From(text, from)
    ELSE SubSeq(text, from, NextDecl(text, from, family) - 1)
         \o Documented(text, NextDecl(text, from, family), family)
         \o ReplaceDecls(text,
                         DeclEnd(text, NextDecl(text, from, family), family) + 1,
                         family)

\* addRubyDocs(code)
AddRubyDocs(text) == ReplaceDecls(text, 1, "ruby")

\* addJSDocs(code)
AddJSDocs(text) == ReplaceDecls(text, 1, "js")

\* addInlineDocs(code, language)
AddInlineDocs(text, language) ==
    IF language = "ruby" THEN AddRubyDocs(text)
    ELSE IF language = "javascript" \/ language = "typescript"
    THEN AddJSDocs(text)
    ELSE text

\* Where the declarations matched in text start.
RECURSIVE DeclStarts(_, _, _)
DeclStarts(text, from, family) ==
    IF NextDecl(text, from, family) = 0 THEN {}
    ELSE {NextDecl(text, from, family)}
         \cup DeclStarts(text,
                         DeclEnd(text, NextDecl(text, from, family), family) + 1,
                         family)

MaxDocFragments == 3

\* The texts documented: up to MaxDocFragments of these pieces, one after
\* another.
DocFragments ==
    { tUndefComment, tUndefMethod, tMethodF, tCommentF, tIndentedMethod,
      tConstK, tJSDocK, tFunctionH, tArrowH }

RECURSIVE DocTexts(_)
DocTexts(n) ==
    IF n = 0 THEN {<< >>}
    ELSE DocTexts(n - 1)
         \cup {t \o f : t \in DocTexts(n - 1), f \in DocFragments}

InitInlineDocs ==
    /\ IdleHost
    /\ OthersIdle({"doc"})
    /\ doc \in [pc : {"ready"},
                code : DocTexts(MaxDocFragments),
                language : {"ruby", "javascript", "typescript", "python"},
                updatedCode : {NoText},
                updatedAgain : {NoText}]

\* An update-inline-docs request with {code, language}.
UpdateInlineDocs ==
    /\ doc.pc = "ready"
    /\ doc' = [doc EXCEPT !.pc = "updated",
                          !.updatedCode = AddInlineDocs(doc.code, doc.language)]
    /\ UNCHANGED <<hostVars, scanVars, riskVars, quality, sim, orch, gen, pr>>

\* An update-inline-docs request with the updatedCode of the last answer.
UpdateInlineDocsAgain ==
    /\ doc.pc = "updated"
    /\ doc' = [doc EXCEPT !.pc = "again",
                          !.updatedAgain =
                              AddInlineDocs(doc.updatedCode, doc.language)]
    /\ UNCHANGED <<hostVars, scanVars, riskVars, quality, sim, orch, gen, pr>>

NextInlineDocs == UpdateInlineDocs \/ UpdateInlineDocsAgain

SpecInlineDocs == InitInlineDocs /\ [][NextInlineDocs]_vars

DocFamily ==
    IF doc.language = "ruby" THEN "ruby"
    ELSE IF doc.language \in {"javascript", "typescript"} THEN "js"
    ELSE "none"

\* The matched declarations of the code that no comment of the code names.
Undocumented ==
    {i \in DeclStarts(doc.code, 1, DocFamily) :
        ~Includes(doc.code, DocMarker(DeclName(doc.code, i, DocFamily), DocFamily))}

RECURSIVE SumStubLengths(_)
SumStubLengths(S) ==
    IF S = {} THEN 0
    ELSE Len(DocStub(DeclName(doc.code, MinOrZero(S), DocFamily), DocFamily))
         + SumStubLengths(S \ {MinOrZero(S)})

\* The stubs are inserted: each undocumented declaration stands right after
\* its stub, and the text has grown by the stubs and by nothing else.
StubsInserted ==
    /\ \A i \in Undocumented :
         Includes(doc.updatedCode,
                  DocStub(DeclName(doc.code, i, DocFamily), DocFamily)
                  \o SubSeq(doc.code, i, DeclEnd(doc.code, i, DocFamily)))
    /\ Len(doc.updatedCode) = Len(doc.code) + SumStubLengths(Undocumented)
    /\ Undocumented = {} => doc.updatedCode = doc.code

OtherLanguageUnchanged ==
    (doc.pc # "ready" /\ DocFamily = "none") => doc.updatedCode = doc.code

StubsAsStated ==
    (doc.pc # "ready" /\ DocFamily # "none") => StubsInserted

\* C26: update-inline-docs puts one stub right before every matched
\* declaration that no comment names and changes nothing else; for another
\* language than ruby, javascript and typescript it returns the code as it
\* is; and applied to its own output it returns that output unchanged.
C26_InlineDocsIdempotent ==
    /\ OtherLanguageUnchanged
    /\ StubsAsStated
    /\ doc.pc = "again" => doc.updatedAgain = doc.updatedCode

(***************************************************************************)
(* Orchestrator: what the summary depends on.                              *)
(***************************************************************************)
\* The results given, with those of the clean code and security agents
\* replaced.
WithOtherAgents(cc, se) ==
    [orch.agents EXCEPT !["cleanCode"] = cc, !["security"] = se]

\* C27: the summary is the same whatever the clean code and security agents
\* returned and whether they ran or not: overallScore, totalIssues,
\* criticalIssues and recommendation depend on the code review and best
\* practices results only; when neither of these two ran, overallScore is 0
\* and the recommendation is 'Code quality looks good'.
C27_SummaryIgnoresOtherAgents ==
    Summarized =>
        /\ \A cc \in ResultChoices("cleanCode"), se \in ResultChoices("security") :
             GenerateSummary(WithOtherAgents(cc, se)) = orch.summary
        /\ (~orch.agents["codeReview"].ran /\ ~orch.agents["bestPractices"].ran) =>
             /\ orch.summary.overallScore = 0
             /\ orch.summary.totalIssues = 0
             /\ orch.summary.criticalIssues = 0
             /\ orch.summary.recommendation = "Code quality looks good"

\* A critical vulnerability and a high smell of quality score 10, next to a
\* code review with one low issue: the summary reports none of them.
C27_Witness ==
    /\ Summarized
    /\ orch.agents["security"].ran
    /\ orch.agents["security"].vulnerabilities # << >>
    /\ orch.agents["cleanCode"].ran
    /\ orch.agents["cleanCode"].qualityScore = 10
    /\ orch.agents["codeReview"].ran
    /\ ~orch.agents["bestPractices"].ran
    /\ orch.summary.overallScore = orch.agents["codeReview"].score
    /\ orch.summary.totalIssues = 1
    /\ orch.summary.criticalIssues = 0
    /\ orch.summary.recommendation = "Code quality looks good"

(***************************************************************************)
(* Clean code agent: detectCodeSmells.                                     *)
(***************************************************************************)
\* value = compute\nvalue = compute\n
tDuplicateLines ==
    <<"v", "a", "l", "u", "e", " ", "=", " ", "c", "o", "m", "p", "u", "t",
      "e", "\n", "v", "a", "l", "u", "e", " ", "=", " ", "c", "o", "m", "p",
      "u", "t", "e", "\n">>

\* x = 42\n
tMagicLine ==
    <<"x", " ", "=", " ", "4", "2", "\n">>

\* //
sSlashSlash ==
    <<"/", "/">>

\* /*
sSlashStar ==
    <<"/", "*">>

\* code.split('\n'): where the lines start
LineStarts(text) == {1} \cup {k + 1 : k \in {j \in 1..Len(text) : text[j] = "\n"}}

\* The index of the last character of the line that holds index k.
RECURSIVE LineEnd(_, _)
LineEnd(text, k) ==
    IF k > Len(text) \/ text[k] = "\n" THEN k - 1 ELSE LineEnd(text, k + 1)

\* The line that starts at s, trimmed.
TrimmedLine(text, s) == Trim(SubSeq(text, s, LineEnd(text, s)))

NonEmptyLines(text) == {s \in LineStarts(text) : TrimmedLine(text, s) # << >>}

CommentLineStarts(text) ==
    {s \in LineStarts(text) :
        \/ StartsWithAt(TrimmedLine(text, s), 1, <<"#">>)
        \/ StartsWithAt(TrimmedLine(text, s), 1, sSlashSlash)
        \/ StartsWithAt(TrimmedLine(text, s), 1, sSlashStar)}

\* calculateMetrics(code)
CalculateMetrics(text) ==
    [totalLines |-> Cardinality(LineStarts(text)),
     codeLines |-> Cardinality(NonEmptyLines(text))
                   - Cardinality(CommentLineStarts(text)),
     commentLines |-> Cardinality(CommentLineStarts(text)),
     emptyLines |-> Cardinality(LineStarts(text))
                    - Cardinality(NonEmptyLines(text)),
     complexity |-> EstimateComplexity(text)]

\* similarity > 0.8 for the quotient calculateSimilarity returns
AboveEightTenths(similarity) == 5 * similarity.num > 4 * similarity.den

\* detectDuplication(code): the pairs of lines of more than 10 characters
\* after trimming whose similarity is above 0.8, at most five of them.
Duplicates(text) ==
    {p \in {s \in LineStarts(text) : Len(TrimmedLine(text, s)) > 10}
           \X {s \in LineStarts(text) : Len(TrimmedLine(text, s)) > 10} :
        /\ p[1] < p[2]
        /\ AboveEightTenths(
             CalculateSimilarity(SubSeq(text, p[1], LineEnd(text, p[1])),
                                 SubSeq(text, p[2], LineEnd(text, p[2]))))}

\* list.length after list.slice(0, n), for a list of count items
SlicedLength(count, n) == IF count < n THEN count ELSE n

\* findDeadCode(code, language): the const declarations whose name occurs
\* once in the code as a word.
DeadCode(text, language) ==
    IF language \in {"javascript", "typescript"}
    THEN {i \in DeclStarts(text, 1, "const") :
            Cardinality(KeywordMatches(text, DeclName(text, i, "const"))) = 1}
    ELSE {}

\* A smell pushed by detectCodeSmells: its type and its severity.
Smell(type, severity) == [type |-> type, severity |-> severity]

\* The five ifs of detectCodeSmells, in order.
SmellsOf(text, metrics, language) ==
    PushIf(metrics.complexity > 10, Smell("long-method", "medium"))
    \o PushIf(metrics.codeLines > 300, Smell("large-class", "medium"))
    \o PushIf(SlicedLength(Cardinality(Duplicates(text)), 5) > 0,
              Smell("duplication", "high"))
    \o PushIf(Len(FindMagicNumbers(text)) > 0, Smell("magic-numbers", "low"))
    \o PushIf(Cardinality(DeadCode(text, language)) > 0,
              Smell("dead-code", "low"))

\* detectCodeSmells(args), for args.code a string
DetectCodeSmells(text, filePath) ==
    [language |-> LanguageOf(filePath),
     metrics |-> CalculateMetrics(text),
     smells |-> SmellsOf(text, CalculateMetrics(text), LanguageOf(filePath)),
     qualityScore |->
         CalculateQualityScore(
           CalculateMetrics(text),
           SmellsOf(text, CalculateMetrics(text), LanguageOf(filePath)))]

MaxIfs == 15
MaxCodeLines == 301

\* n lines of code, each the one letter a.
ManyLines(n) == [k \in 1..(2 * n) |-> IF k % 2 = 1 THEN "a" ELSE "\n"]

\* n lines, each an if.
IfLines(n) == [k \in 1..(3 * n) |-> <<"i", "f", "\n">>[((k - 1) % 3) + 1]]

\* The code a request carries: lines of code, lines of ifs, two equal lines,
\* a line with a number, a constant that is never used.
SmellSource(d) ==
    ManyLines(d.lines)
    \o IfLines(d.ifs)
    \o (IF d.duplicated THEN tDuplicateLines ELSE << >>)
    \o (IF d.magic THEN tMagicLine ELSE << >>)
    \o (IF d.dead THEN tConstK ELSE << >>)

InitSmells ==
    /\ IdleHost
    /\ OthersIdle({"quality"})
    /\ quality \in [pc : {"ready"},
                    lines : {0, MaxCodeLines - 1, MaxCodeLines},
                    ifs : 0..MaxIfs,
                    duplicated : BOOLEAN,
                    magic : BOOLEAN,
                    dead : BOOLEAN,
                    filePath : {NoText, pAppJs, pUserRb}]

\* A detect-code-smells request with {code, filePath}.
DetectCodeSmellsCall ==
    /\ quality.pc = "ready"
    /\ quality' = [pc |-> "done",
                   result |-> DetectCodeSmells(SmellSource(quality),
                                               quality.filePath)]
    /\ UNCHANGED <<hostVars, scanVars, riskVars, sim, orch, doc, gen, pr>>

NextSmells == DetectCodeSmellsCall

SpecSmells == InitSmells /\ [][NextSmells]_vars

SmellTypes ==
    {"long-method", "large-class", "duplication", "magic-numbers", "dead-code"}

SmellsOfType(type) ==
    {k \in 1..Len(quality.result.smells) : quality.result.smells[k].type = type}

\* C28: detect-code-smells returns at most one smell of each of the five
\* types, so at most five smells, and a qualityScore from 25 to 98: the
\* floor of 0 is never reached through the tool.
C28_SmellsAndScoreBounded ==
    quality.pc = "done" =>
        /\ \A k \in 1..Len(quality.result.smells) :
             quality.result.smells[k].type \in SmellTypes
        /\ \A type \in SmellTypes : Cardinality(SmellsOfType(type)) <= 1
        /\ Len(quality.result.smells) <= 5
        /\ quality.result.metrics.complexity >= 1
        /\ quality.result.qualityScore >= 25
        /\ quality.result.qualityScore <= 98

\* All five smells at a complexity of 15: the lowest score, 25.
C28_Witness ==
    /\ quality.pc = "done"
    /\ Len(quality.result.smells) = 5
    /\ quality.result.metrics.complexity = 15
    /\ quality.result.metrics.codeLines > 300
    /\ quality.result.qualityScore = 25

(***************************************************************************)
(* Code review agent: reviewCode for the rails framework.                  *)
(***************************************************************************)
\* < ApplicationRecord
sApplicationRecord ==
    <<"<", " ", "A", "p", "p", "l", "i", "c", "a", "t", "i", "o", "n", "R",
      "e", "c", "o", "r", "d">>

\* validates
sValidates ==
    <<"v", "a", "l", "i", "d", "a", "t", "e", "s">>

\* def create
sDefCreate ==
    <<"d", "e", "f", " ", "c", "r", "e", "a", "t", "e">>

\* def update
sDefUpdate ==
    <<"d", "e", "f", " ", "u", "p", "d", "a", "t", "e">>

\* class User < ApplicationRecord\n
tUserRecord ==
    <<"c", "l", "a", "s", "s", " ", "U", "s", "e", "r", " ", "<", " ", "A",
      "p", "p", "l", "i", "c", "a", "t", "i", "o", "n", "R", "e", "c", "o",
      "r", "d", "\n">>

\* before_action :authenticate_user!\n
tGateLine ==
    <<"b", "e", "f", "o", "r", "e", "_", "a", "c", "t", "i", "o", "n", " ",
      ":", "a", "u", "t", "h", "e", "n", "t", "i", "c", "a", "t", "e", "_",
      "u", "s", "e", "r", "!", "\n">>

\* def create\nend\n
tCreateMethod ==
    <<"d", "e", "f", " ", "c", "r", "e", "a", "t", "e", "\n", "e", "n", "d",
      "\n">>

\* def update\nend\n
tUpdateMethod ==
    <<"d", "e", "f", " ", "u", "p", "d", "a", "t", "e", "\n", "e", "n", "d",
      "\n">>

\* def index  \nend\n
tIndexMethod ==
    <<"d", "e", "f", " ", "i", "n", "d", "e", "x", " ", " ", "\n", "e", "n",
      "d", "\n">>

\* validates :name\n
tValidatesLine ==
    <<"v", "a", "l", "i", "d", "a", "t", "e", "s", " ", ":", "n", "a", "m",
      "e", "\n">>

\* line.length > 120
LongLineStarts(text) ==
    {s \in LineStarts(text) : LineEnd(text, s) - s + 1 > 120}

\* line !== line.trimEnd()
TrailingSpaceStarts(text) ==
    {s \in LineStarts(text) :
        LineEnd(text, s) >= s /\ IsSpace(text[LineEnd(text, s)])}

\* checkBasicPractices(code, language): a style issue of severity info for
\* each long line, then one for each line that ends in whitespace.
CheckBasicPractices(text) ==
    Repeat(ReviewIssue("style", "info"), Cardinality(LongLineStarts(text)))
    \o Repeat(ReviewIssue("style", "info"),
              Cardinality(TrailingSpaceStarts(text)))

\* !code.includes('before_action') && code.includes('def create')
\* || code.includes('def update'): && binds tighter than ||.
NeedsBeforeAction(text) ==
    \/ (~Includes(text, sBeforeAction) /\ Includes(text, sDefCreate))
    \/ Includes(text, sDefUpdate)

\* checkRailsConventions(code); the issue of severity info is 'Consider using
\* before_action for authentication', the one of severity low 'Consider
\* adding validations for data integrity'.
CheckRailsConventions(text) ==
    PushIf(/\ Includes(text, sClass)
           /\ Includes(text, sApplicationRecord)
           /\ ~Includes(text, sValidates),
           ReviewIssue("convention", "low"))
    \o PushIf(/\ Includes(text, sClass)
              /\ Includes(text, sController)
              /\ NeedsBeforeAction(text),
              ReviewIssue("convention", "info"))

\* securityIssues.issues.filter(i => i.severity === 'critical' ||
\* i.severity === 'high'), each issue by its type and severity.
RECURSIVE SevereIssues(_)
SevereIssues(issues) ==
    IF issues = << >> THEN << >>
    ELSE PushIf(IsCritical(Head(issues)),
                ReviewIssue(Head(issues).type, Head(issues).severity))
         \o SevereIssues(Tail(issues))

\* review.issues of reviewCode for the framework rails.
RailsReviewIssues(text) ==
    CheckBasicPractices(text)
    \o CheckRailsConventions(text)
    \o SevereIssues(CheckSecurity(text).v.findings)

MaxReviewFragments == 3

\* The texts reviewed: up to MaxReviewFragments of these pieces, one after
\* another.
ReviewFragments ==
    { tControllerClass, tUserRecord, tGateLine, tCreateMethod, tUpdateMethod,
      tIndexMethod, tValidatesLine }

RECURSIVE ReviewTexts(_)
ReviewTexts(n) ==
    IF n = 0 THEN {<< >>}
    ELSE ReviewTexts(n - 1)
         \cup {t \o f : t \in ReviewTexts(n - 1), f \in ReviewFragments}

InitReviewCode ==
    /\ IdleHost
    /\ OthersIdle({"pr"})
    /\ pr \in {[pc |-> "ready", code |-> t] :
                 t \in ReviewTexts(MaxReviewFragments)}

\* A review-code request with {code}, framework being 'rails' by default.
ReviewCodeCall ==
    /\ pr.pc = "ready"
    /\ pr' = [pc |-> "done", code |-> pr.code,
              review |-> ReviewCode([path |-> NoText,
                                     found |-> RailsReviewIssues(pr.code)])]
    /\ UNCHANGED <<hostVars, scanVars, riskVars, quality, sim, orch, doc, gen>>

NextReviewCode == ReviewCodeCall

SpecReviewCode == InitReviewCode /\ [][NextReviewCode]_vars

\* The review holds the issue 'Consider using before_action for
\* authentication'.
BeforeActionAdvised ==
    \E k \in 1..Len(pr.review.issues) :
        pr.review.issues[k] = ReviewIssue("convention", "info")

\* C29: a rails review advises before_action exactly for controller-like
\* code that has no before_action and defines create or update; code that
\* contains before_action is never advised to use it.
C29_BeforeActionAdvice ==
    pr.pc = "done" =>
        (BeforeActionAdvised <=>
            /\ Includes(pr.code, sClass)
            /\ Includes(pr.code, sController)
            /\ ~Includes(pr.code, sBeforeAction)
            /\ (Includes(pr.code, sDefCreate) \/ Includes(pr.code, sDefUpdate)))

(***************************************************************************)
(* Base agent: list-tools and registration after initialize.               *)
(***************************************************************************)
\* A list-tools request was answered by the handler registerTool installs,
\* with one entry per tool registered at that time.
ListAnswered ==
    /\ lastList.kind = "tools"
    /\ Len(lastList.tools) = lastList.at

\* Every tool registered when a request arrived was served: a list-tools
\* response names each of them, and a call-tool request for a registered name
\* found a tool of that name.
RegisteredServed ==
    /\ lastList.kind = "tools" =>
         \A i \in 1..lastList.at :
            \E k \in 1..Len(lastList.tools) :
               lastList.tools[k].name = tools[i].name
    /\ \A id \in Requests :
         (\E i \in 1..reqs[id].size : tools[i].name = reqs[id].name) =>
            /\ reqs[id].tool \in 1..reqs[id].size
            /\ tools[reqs[id].tool].name = reqs[id].name
            /\ reqs[id].response # ToolNotFound(reqs[id].name)

\* C30: every list-tools request to an initialized agent is answered with
\* the list of the tools registered so far, an empty list when there is
\* none, and every registered tool, whenever it was registered, is listed
\* and can be called.
C30_ListToolsAlwaysAvailable ==
    /\ lastList.kind # "none" => ListAnswered
    /\ RegisteredServed

====
